---- MODULE Spec2Model ----
(***************************************************************************)
(* Model of the ICT pattern-detection pipeline of                          *)
(* src/flow_ai_core/ict_analysis.py.                                       *)
(*                                                                         *)
(* A DataFrame is a sequence of candle records.  The source indexes rows   *)
(* from 0 (df.iloc[i]); iloc(s, i) below reads row i of a sequence, so the *)
(* index arithmetic of the source is kept as written.  Prices are integer  *)
(* ticks; a ratio comparison a/b >= n/d of the source is evaluated exactly *)
(* by cross-multiplication, and a midpoint (a+b)/2 is kept in half-ticks   *)
(* (the stored number is a+b).  The row label (df.index[i], row.name) is   *)
(* the candle's timestamp field, which the data layer delivers ascending   *)
(* and unique.                                                             *)
(***************************************************************************)
EXTENDS Integers, Sequences, FiniteSets, TLC

VARIABLES
    df,                 \* the candle series handed to the pipeline
    pc,                 \* which function has returned last
    lookback,           \* identify_swing_points: _lookback
    df_out,             \* identify_swing_points: the Swing_High / Swing_Low columns
    mss_swing_lookback, \* analyze_market_structure_shift: _mss_swing_lookback
    shifts,             \* analyze_market_structure_shift: the returned list
    min_body_ratio,     \* identify_order_blocks: _min_body_ratio, as <<num, den>>
    order_blocks,       \* identify_order_blocks: the returned list
    fvg_threshold,      \* identify_fvg: _fvg_threshold, in percent
    fvgs,               \* identify_fvg: the returned list
    pd_args,            \* get_premium_discount_array: current_candle_index, lookback, levels
    pd_array,           \* get_premium_discount_array: the returned value
    env,                \* the settings the operator put in the environment
    htf_data_dict,      \* get_overall_htf_bias: timeframe -> series
    htf_bias,           \* get_overall_htf_bias: how the call ended
    bias_args,          \* get_overall_htf_bias: the keys of htf_data_dict, in insertion order
    interaction_args,   \* check_htf_level_interaction: trade_type, entry_level, poi_top, poi_bottom
    interaction,        \* check_htf_level_interaction: the returned tuple
    level_args,         \* identify_key_htf_levels: the arguments besides htf_data_dict
    key_levels,         \* identify_key_htf_levels: how the call ended
    ltf_df_processed,   \* get_ltf_signals: the LTF series and whether it has an RSI column
    signal_args,        \* get_ltf_signals: overall_htf_bias and key_htf_levels
    signals             \* get_ltf_signals: how the call ended

vars == <<df, pc, lookback, df_out, mss_swing_lookback, shifts,
          min_body_ratio, order_blocks, fvg_threshold, fvgs,
          pd_args, pd_array, env, htf_data_dict, htf_bias,
          level_args, key_levels, ltf_df_processed, signal_args, signals, bias_args,
          interaction_args, interaction>>

-----------------------------------------------------------------------------
(* Bounds of the model *)

MaxPrice == 4
MaxRange == 1
MaxLen == 5
MaxLookback == 2
MaxMssLookback == 3

\* analyze_market_structure_shift is also run on longer series, of up to
\* MaxLongLen candles, under an MSS lookback of 1..MaxLongMssLookback; their
\* candles are flat above the lowest price, or span the whole price range.
MaxLongLen == 7
MaxLongMssLookback == 4

Prices == 1..MaxPrice

\* identify_order_blocks and identify_fvg are run on series of up to MaxGapLen
\* candles over the price levels GapPrices: the levels are spaced so that a
\* body can be shorter than 30% of another candle's range, and a gap smaller
\* or larger than the thresholds FvgThresholds (in percent).
MaxGapLen == 3
GapPrices == {1, 4, 11, 14}
MinBodyRatios == {<<3, 10>>, <<4, 5>>}
FvgThresholds == {1, 17, 250}

\* get_premium_discount_array is run on series of up to MaxPdLen candles over
\* the prices 1..MaxPdPrice, with a lookback of 0..MaxPdLookback and one of
\* the ratio lists PdLevelLists (a ratio is <<num, den>>).
MaxPdLen == 3
MaxPdPrice == 2
MaxPdLookback == 2
PdLevelLists ==
    { << <<1, 2>>, <<618, 1000>> >>,
      << <<0, 1>>, <<1, 4>>, <<1, 1>> >> }

\* get_overall_htf_bias is run on the timeframes HTF_TIMEFRAMES, each given
\* no series, None, or a series of up to MaxHtfLen flat candles over the
\* levels 1..MaxHtfPrice, under a configured swing lookback of
\* 1..MaxHtfLookback and an MSS lookback above it, up to MaxMssLookback.
MaxHtfLen == 4
MaxHtfPrice == 3
MaxHtfLookback == 1

\* The order in which get_overall_htf_bias evaluates timeframes is examined
\* on dictionaries of up to MaxTimeframes keys, each a multiplier of
\* Multipliers with one of the units min, h, d, w, m, given None or an empty
\* series.
MaxTimeframes == 2
Multipliers == {1, 2, 4, 5}

\* identify_key_htf_levels is run on series of up to MaxLevelLen flat candles
\* per timeframe, at a current LTF timestamp of 0..MaxLevelTime and a current
\* LTF price of 1..MaxHtfPrice.
MaxLevelLen == 3
MaxLevelTime == 2

\* check_htf_level_interaction is run on a list of up to MaxKeyLevels HTF
\* levels, with bounds among HtfLevelPrices, around the points of interest
\* PointsOfInterest: with an entry level of 1000 the buffer is one tick, so
\* that the prices fall inside the obstacle band, on its edge and beyond it.
MaxKeyLevels == 2
HtfLevelPrices == {992, 994, 996, 998, 1002, 1004, 1006, 1008}
PointsOfInterest == { [entry_level |-> 1000, poi_top |-> 1001, poi_bottom |-> 999] }

\* get_ltf_signals is run on an LTF series of up to MaxLtfTail flat candles
\* over the prices 1..MaxLtfPrice, delivered alone or after a flat history
\* that brings the series to the minimum length of line 392; each candle
\* carries one of the RSI readings RsiReadings.
MaxLtfTail == 3
MaxLtfPrice == 3
RsiReadings == {18, 50, 82}

-----------------------------------------------------------------------------
(* Data *)

iloc(s, i) == s[i + 1]

Max(S) == CHOOSE x \in S : \A y \in S : y <= x
Min(S) == CHOOSE x \in S : \A y \in S : x <= y
Abs(x) == IF x < 0 THEN -x ELSE x

\* Candle shape of spec section 3: high >= max(open, close), low <= min(open, close).
WellFormed(c) ==
    /\ c.Low <= c.Open /\ c.Open <= c.High
    /\ c.Low <= c.Close /\ c.Close <= c.High

OHLC == [Open : Prices, High : Prices, Low : Prices, Close : Prices]

\* Candles of at most MaxRange ticks whose Open equals their Close: the Open
\* column is not read by identify_swing_points or analyze_market_structure_shift.
StructureCandles ==
    {c \in OHLC : WellFormed(c) /\ c.Open = c.Close /\ c.High - c.Low <= MaxRange}

\* Flat candles above the lowest price, and candles that span the whole price
\* range and close at one end of it.
LongCandles ==
    {c \in OHLC : /\ WellFormed(c)
                  /\ c.Open = c.Close
                  /\ \/ c.High = c.Low /\ c.Low > 1
                     \/ c.Low = 1 /\ c.High = MaxPrice /\ c.Close \in {c.Low, c.High}}

Stamp(c, t) ==
    [timestamp |-> t, Open |-> c.Open, High |-> c.High, Low |-> c.Low, Close |-> c.Close]

-----------------------------------------------------------------------------
(* identify_swing_points *)

\* Variant of is_sh that accepts an equal High on the right side as well.
is_sh_non_strict(d, i, L) ==
    /\ \A j \in 1..L : iloc(d, i).High >= iloc(d, i - j).High
    /\ \A j \in 1..L : iloc(d, i).High >= iloc(d, i + j).High

is_sh(d, i, L) ==
    /\ \A j \in 1..L : iloc(d, i).High >= iloc(d, i - j).High
    /\ \A j \in 1..L : iloc(d, i).High > iloc(d, i + j).High

is_strict_peak_sh(d, i, L) ==
    ~ \E j \in 1..L :
        \/ /\ iloc(d, i).High = iloc(d, i - j).High
           /\ i - j > 0
           /\ iloc(d, i).High <= iloc(d, i - j - 1).High
        \/ /\ iloc(d, i).High = iloc(d, i + j).High
           /\ i + j < Len(d) - 1
           /\ iloc(d, i).High <= iloc(d, i + j + 1).High

\* Variant of is_sl that looks one row less far ahead.
is_sl_short_lookahead(d, i, L) ==
    /\ \A j \in 1..L : iloc(d, i).Low <= iloc(d, i - j).Low
    /\ \A j \in 1..(L - 1) : iloc(d, i).Low < iloc(d, i + j).Low

is_sl(d, i, L) ==
    /\ \A j \in 1..L : iloc(d, i).Low <= iloc(d, i - j).Low
    /\ \A j \in 1..L : iloc(d, i).Low < iloc(d, i + j).Low

is_strict_peak_sl(d, i, L) ==
    ~ \E j \in 1..L :
        \/ /\ iloc(d, i).Low = iloc(d, i - j).Low
           /\ i - j > 0
           /\ iloc(d, i).Low >= iloc(d, i - j - 1).Low
        \/ /\ iloc(d, i).Low = iloc(d, i + j).Low
           /\ i + j < Len(d) - 1
           /\ iloc(d, i).Low >= iloc(d, i + j + 1).Low

\* Variant of SwingRange whose loop stops one row early.
SwingRange_stops_early(d, L) ==
    IF Len(d) < 2 * L + 1 THEN {} ELSE L .. (Len(d) - L - 2)

\* The rows the loop of line 25 visits; empty when len(df) < 2 * _lookback + 1.
SwingRange(d, L) ==
    IF Len(d) < 2 * L + 1 THEN {} ELSE L .. (Len(d) - L - 1)

\* Variant of identify_swing_points that visits every row and compares it with
\* the neighbours that exist, instead of requiring _lookback rows on each side.
identify_swing_points_clamped(d, L) ==
    LET before(p) == {q \in 1..Len(d) : q < p /\ p - q <= L}
        after(p) == {q \in 1..Len(d) : q > p /\ q - p <= L}
    IN  [Swing_High |->
            [p \in 1..Len(d) |->
                /\ \A q \in before(p) : d[p].High >= d[q].High
                /\ \A q \in after(p) : d[p].High > d[q].High],
         Swing_Low |->
            [p \in 1..Len(d) |->
                /\ \A q \in before(p) : d[p].Low <= d[q].Low
                /\ \A q \in after(p) : d[p].Low < d[q].Low]]

identify_swing_points(d, L) ==
    [Swing_High |->
        [p \in 1..Len(d) |->
            /\ (p - 1) \in SwingRange(d, L)
            /\ is_sh(d, p - 1, L)
            /\ is_strict_peak_sh(d, p - 1, L)],
     Swing_Low |->
        [p \in 1..Len(d) |->
            /\ (p - 1) \in SwingRange(d, L)
            /\ is_sl(d, p - 1, L)
            /\ is_strict_peak_sl(d, p - 1, L)]]

-----------------------------------------------------------------------------
(* analyze_market_structure_shift *)

\* Variant of prior_series that keeps only the oldest flagged row of the window.
prior_series_oldest(flags, m, i) ==
    LET S == {k \in (IF i - m > 0 THEN i - m ELSE 0) .. (i - 1) : iloc(flags, k)}
    IN  {k \in S : \A q \in S : k <= q}

\* history = df.iloc[max(0, i - lookback) : i], and the rows of it that carry
\* the flag (history[history['Swing_High']]), as a set of row numbers.
prior_series(flags, m, i) ==
    {k \in Max({0, i - m}) .. (i - 1) : iloc(flags, k)}

\* Variant of breaks_above that accepts a close equal to the level.
breaks_above_or_touches(close, level) == close >= level

breaks_above(close, level) == close > level
breaks_below(close, level) == close < level

\* Variant of repeats_last without the comparison against the last event.
repeats_nothing(sh, type, swing_ts) == FALSE

\* The guard of lines 133 and 145, negated: the event repeats the last one.
repeats_last(sh, type, swing_ts) ==
    /\ sh # <<>>
    /\ sh[Len(sh)].type = type
    /\ sh[Len(sh)].broken_swing_ts = swing_ts

mss_event(type, candle, level, swing) ==
    [type |-> type, timestamp |-> candle.timestamp, break_level |-> level,
     broken_swing_ts |-> swing.timestamp, break_candle_close |-> candle.Close]

\* One iteration of the loop of line 120: the bullish test, then the bearish.
\* prior_sh_series.iloc[-1] is the flagged row with the greatest row number.
mss_step(d, sw, m, i, sh) ==
    LET current_candle == iloc(d, i)
        prior_sh_series == prior_series(sw.Swing_High, m, i)
        prior_sl_series == prior_series(sw.Swing_Low, m, i)
        after_bull ==
            IF prior_sh_series = {} THEN sh
            ELSE LET last_significant_sh == iloc(d, Max(prior_sh_series))
                 IN  IF /\ breaks_above(current_candle.Close, last_significant_sh.High)
                        /\ ~ repeats_last(sh, "bullish_mss", last_significant_sh.timestamp)
                     THEN Append(sh, mss_event("bullish_mss", current_candle,
                                               last_significant_sh.High, last_significant_sh))
                     ELSE sh
    IN  IF prior_sl_series = {} THEN after_bull
        ELSE LET last_significant_sl == iloc(d, Max(prior_sl_series))
             IN  IF /\ breaks_below(current_candle.Close, last_significant_sl.Low)
                    /\ ~ repeats_last(after_bull, "bearish_mss", last_significant_sl.timestamp)
                 THEN Append(after_bull, mss_event("bearish_mss", current_candle,
                                                   last_significant_sl.Low, last_significant_sl))
                 ELSE after_bull

RECURSIVE mss_loop(_, _, _, _, _)
mss_loop(d, sw, m, i, sh) ==
    IF i >= Len(d) THEN sh
    ELSE mss_loop(d, sw, m, i + 1, mss_step(d, sw, m, i, sh))

analyze_market_structure_shift(d, sw, m) ==
    IF Len(d) < m + 1 THEN <<>> ELSE mss_loop(d, sw, m, m, <<>>)

-----------------------------------------------------------------------------
(* identify_order_blocks *)

GapCandles ==
    {c \in [Open : GapPrices, High : GapPrices, Low : GapPrices, Close : GapPrices] :
        WellFormed(c)}

\* next_candle_body > candle_range * 0.3 (line 95)
DisplacementNum == 3
DisplacementDen == 10

\* Variant of strong_displacement that accepts any body.
any_displacement(next_candle_body, candle_range) == TRUE

strong_displacement(next_candle_body, candle_range) ==
    next_candle_body * DisplacementDen > candle_range * DisplacementNum

\* body_ratio >= _min_body_ratio, with body_ratio = body_size / candle_range
\* and candle_range > 0.
body_ratio_ok(body_size, candle_range, ratio) ==
    body_size * ratio[2] >= ratio[1] * candle_range

\* Variant of ob_record whose zone ends at the origin's Open: [Low, Open] for
\* a bullish_ob, [Open, High] for a bearish_ob.
ob_record_open_edge(type, c) ==
    LET top == IF type = "bullish_ob" THEN c.Open ELSE c.High
        bottom == IF type = "bullish_ob" THEN c.Low ELSE c.Open
    IN  [type |-> type, timestamp |-> c.timestamp,
         ob_top |-> top, ob_bottom |-> bottom, ob_midpoint |-> top + bottom,
         open |-> c.Open, close |-> c.Close,
         body_ratio |-> <<Abs(c.Close - c.Open), c.High - c.Low>>]

\* ob_details (lines 80-87) with its type; ob_midpoint is in half-ticks and the
\* rounded body_ratio is kept as the fraction <<body_size, candle_range>>.
ob_record(type, c) ==
    [type |-> type, timestamp |-> c.timestamp,
     ob_top |-> c.High, ob_bottom |-> c.Low, ob_midpoint |-> c.High + c.Low,
     open |-> c.Open, close |-> c.Close,
     body_ratio |-> <<Abs(c.Close - c.Open), c.High - c.Low>>]

\* The order blocks that row i contributes (lines 64-104): none or one.
ob_step(d, i, ratio) ==
    LET current_candle == iloc(d, i)
        next_candle == iloc(d, i + 1)
        candle_range == current_candle.High - current_candle.Low
        body_size == Abs(current_candle.Close - current_candle.Open)
        next_candle_body == Abs(next_candle.Close - next_candle.Open)
    IN  IF candle_range = 0 THEN <<>>
        ELSE IF current_candle.Open > current_candle.Close
        THEN IF /\ body_ratio_ok(body_size, candle_range, ratio)
                /\ next_candle.Close > next_candle.Open
                /\ next_candle.Close > current_candle.High
                /\ strong_displacement(next_candle_body, candle_range)
             THEN << ob_record("bullish_ob", current_candle) >>
             ELSE <<>>
        ELSE IF current_candle.Close > current_candle.Open
        THEN IF /\ body_ratio_ok(body_size, candle_range, ratio)
                /\ next_candle.Open > next_candle.Close
                /\ next_candle.Close < current_candle.Low
                /\ strong_displacement(next_candle_body, candle_range)
             THEN << ob_record("bearish_ob", current_candle) >>
             ELSE <<>>
        ELSE <<>>

\* for i in range(1, len(df) - 1): the first row visited (line 63)
ob_first_row == 1

RECURSIVE ob_loop(_, _, _, _)
ob_loop(d, i, ratio, acc) ==
    IF i >= Len(d) - 1 THEN acc
    ELSE ob_loop(d, i + 1, ratio, acc \o ob_step(d, i, ratio))

identify_order_blocks(d, ratio) ==
    IF Len(d) < 3 THEN <<>> ELSE ob_loop(d, ob_first_row, ratio, <<>>)

-----------------------------------------------------------------------------
(* identify_fvg *)

\* Variant of fvg_size_ok that keeps every gap.
any_fvg_size(fvg_bottom, fvg_top, threshold) == fvg_bottom > 0

\* fvg_bottom > 0 and (fvg_top - fvg_bottom) / fvg_bottom * 100 >= _fvg_threshold
fvg_size_ok(fvg_bottom, fvg_top, threshold) ==
    /\ fvg_bottom > 0
    /\ (fvg_top - fvg_bottom) * 100 >= threshold * fvg_bottom

\* fvg_details_base with the gap; fvg_midpoint is in half-ticks.
fvg_record(type, d, i, fvg_bottom, fvg_top) ==
    [type |-> type, timestamp |-> iloc(d, i).timestamp,
     detection_candle_timestamp |-> iloc(d, i + 1).timestamp,
     imbalance_candle_timestamp |-> iloc(d, i).timestamp,
     fvg_bottom |-> fvg_bottom, fvg_top |-> fvg_top,
     fvg_midpoint |-> fvg_bottom + fvg_top]

\* Variant of bullish_gap that also wants the middle candle to close bullish.
bullish_gap_bullish_middle(c1, c_imbalance, c3) ==
    c3.Low > c1.High /\ c_imbalance.Close > c_imbalance.Open

\* The test of line 170; the middle candle is not read.
bullish_gap(c1, c_imbalance, c3) == c3.Low > c1.High

\* The test of line 179; the middle candle is not read.
bearish_gap(c1, c_imbalance, c3) == c3.High < c1.Low

\* Variant of fvg_step that labels each gap with the other type.
fvg_step_swapped_types(d, i, threshold) ==
    LET c1 == iloc(d, i - 1)
        c_imbalance == iloc(d, i)
        c3 == iloc(d, i + 1)
    IN  IF bullish_gap(c1, c_imbalance, c3)
        THEN IF fvg_size_ok(c1.High, c3.Low, threshold)
             THEN << fvg_record("bearish_fvg", d, i, c1.High, c3.Low) >>
             ELSE <<>>
        ELSE IF bearish_gap(c1, c_imbalance, c3)
        THEN IF fvg_size_ok(c3.High, c1.Low, threshold)
             THEN << fvg_record("bullish_fvg", d, i, c3.High, c1.Low) >>
             ELSE <<>>
        ELSE <<>>

\* The gaps that middle row i contributes (lines 161-184): none or one.
fvg_step(d, i, threshold) ==
    LET c1 == iloc(d, i - 1)
        c_imbalance == iloc(d, i)
        c3 == iloc(d, i + 1)
    IN  IF bullish_gap(c1, c_imbalance, c3)
        THEN IF fvg_size_ok(c1.High, c3.Low, threshold)
             THEN << fvg_record("bullish_fvg", d, i, c1.High, c3.Low) >>
             ELSE <<>>
        ELSE IF bearish_gap(c1, c_imbalance, c3)
        THEN IF fvg_size_ok(c3.High, c1.Low, threshold)
             THEN << fvg_record("bearish_fvg", d, i, c3.High, c1.Low) >>
             ELSE <<>>
        ELSE <<>>

RECURSIVE fvg_loop(_, _, _, _)
fvg_loop(d, i, threshold, acc) ==
    IF i >= Len(d) - 1 THEN acc
    ELSE fvg_loop(d, i + 1, threshold, acc \o fvg_step(d, i, threshold))

identify_fvg(d, threshold) ==
    IF Len(d) < 3 THEN <<>> ELSE fvg_loop(d, 1, threshold, <<>>)

-----------------------------------------------------------------------------
(* get_premium_discount_array *)

\* Candles that close at their High or their Low, also with High below Low:
\* a window of such candles can have range_high < range_low.
PdCandles ==
    {c \in OHLC : /\ c.Open = c.Close
                  /\ c.Close \in {c.High, c.Low}
                  /\ c.High <= MaxPdPrice /\ c.Low <= MaxPdPrice}

NoArray == [is_none |-> TRUE]

\* Variant of degenerate_range that lets a zero-width range through.
inverted_range(range_high, range_low) == range_high < range_low

\* range_high <= range_low (line 203); prices are never NaN here.
degenerate_range(range_high, range_low) == range_high <= range_low

\* The ratios of _levels that get a level_<ratio> entry: 0 < level_val < 1.
valid_levels(levels) ==
    {levels[k] : k \in {k \in 1 .. Len(levels) :
                            /\ 0 < levels[k][1]
                            /\ levels[k][1] < levels[k][2]}}

\* equilibrium is in half-ticks; the price of ratio <<num, den>> is in 1/den
\* ticks: range_low * den + (range_high - range_low) * num.
get_premium_discount_array(d, current_candle_index, lb, levels) ==
    IF current_candle_index < lb \/ current_candle_index >= Len(d) THEN NoArray
    ELSE LET relevant_range == Max({0, current_candle_index - lb}) .. (current_candle_index - 1)
         IN  IF relevant_range = {} THEN NoArray
             ELSE LET range_high == Max({iloc(d, k).High : k \in relevant_range})
                      range_low == Min({iloc(d, k).Low : k \in relevant_range})
                      equilibrium == 2 * range_low + (range_high - range_low)
                      current_price == iloc(d, current_candle_index).Close
                  IN  IF degenerate_range(range_high, range_low) THEN NoArray
                      ELSE [is_none |-> FALSE,
                            range_high |-> range_high,
                            range_low |-> range_low,
                            equilibrium |-> equilibrium,
                            level |-> [r \in valid_levels(levels) |->
                                          range_low * r[2] + (range_high - range_low) * r[1]],
                            current_price_status |->
                                IF 2 * current_price > equilibrium THEN "premium"
                                ELSE IF 2 * current_price < equilibrium THEN "discount"
                                ELSE "equilibrium"]

-----------------------------------------------------------------------------
(* Configuration: flow_ai_core/config.py *)

\* The module attributes of config that ict_analysis.py reads and config.py
\* assigns.  HTF_BIAS_CONSENSUS_REQUIRED, price_precision,
\* HTF_LEVEL_LOOKBACK_DEFAULT and ICT_SWEEP_MSS_LOOKBACK_CANDLES are read
\* (lines 302, 257, 335 and 405) and assigned nowhere: reading them raises
\* AttributeError.
ConfigAttributes ==
    {"ICT_SWING_LOOKBACK_PERIODS", "ICT_MSS_SWING_LOOKBACK", "ICT_OB_MIN_BODY_RATIO",
     "FVG_THRESHOLD", "ICT_PD_ARRAY_LOOKBACK_PERIODS", "ICT_PD_RETRACEMENT_LEVELS",
     "HTF_TIMEFRAMES"}

config_has(attribute) == attribute \in ConfigAttributes

\* HTF_TIMEFRAMES = '1d,4h' (config.py line 72); a timeframe string is kept as
\* its count and its unit.
HTF_TIMEFRAMES == { [n |-> 1, unit |-> "d"], [n |-> 4, unit |-> "h"] }

\* The environment before the process starts: the two lookbacks config.py
\* reads from it (10 and 20 when it sets none), and the consensus switch of
\* the fusion policy.
Environments ==
    [ICT_SWING_LOOKBACK_PERIODS : 1 .. MaxHtfLookback,
     ICT_MSS_SWING_LOOKBACK : (MaxHtfLookback + 1) .. MaxMssLookback,
     HTF_BIAS_CONSENSUS_REQUIRED : BOOLEAN]

DefaultEnvironment ==
    [ICT_SWING_LOOKBACK_PERIODS |-> 10, ICT_MSS_SWING_LOOKBACK |-> 20,
     HTF_BIAS_CONSENSUS_REQUIRED |-> FALSE]

-----------------------------------------------------------------------------
(* determine_single_htf_bias, tf_str_to_pandas_freq, get_overall_htf_bias *)

HtfCandles ==
    {c \in OHLC : c.High = c.Low /\ WellFormed(c) /\ c.High <= MaxHtfPrice}

Returned(bias, reasons) == [outcome |-> "return", bias |-> bias, reasons |-> reasons]
Raised(exception) == [outcome |-> exception, bias |-> "none", reasons |-> <<>>]

\* (bias, reason) of one timeframe, or the exception the call raises.
determine_single_htf_bias(htf_df, tf, e) ==
    IF \/ htf_df = <<>>
       \/ Len(htf_df) < Max({e.ICT_MSS_SWING_LOOKBACK, e.ICT_SWING_LOOKBACK_PERIODS * 2 + 1})
    THEN Returned("NEUTRAL", << <<tf, "Insufficient data">> >>)
    ELSE LET htf_df_with_swings == identify_swing_points(htf_df, e.ICT_SWING_LOOKBACK_PERIODS)
             htf_market_shifts ==
                analyze_market_structure_shift(htf_df, htf_df_with_swings,
                                               e.ICT_MSS_SWING_LOOKBACK)
         IN  IF htf_market_shifts = <<>>
             THEN Returned("NEUTRAL", << <<tf, "No recent MSS">> >>)
             ELSE LET last_mss == htf_market_shifts[Len(htf_market_shifts)]
                  IN  IF ~ config_has("price_precision") THEN Raised("AttributeError")
                      ELSE IF last_mss.type = "bullish_mss"
                      THEN Returned("BULLISH", << <<tf, "Last MSS: bullish_mss">> >>)
                      ELSE IF last_mss.type = "bearish_mss"
                      THEN Returned("BEARISH", << <<tf, "Last MSS: bearish_mss">> >>)
                      ELSE Returned("NEUTRAL", << <<tf, "Ambiguous structure">> >>)

\* tf_str_to_pandas_freq: the pandas unit of a timeframe's unit; the tests
\* of lines 272-276 are tried in that order on the lower-cased string.
tf_str_to_pandas_freq(tf) ==
    [n |-> tf.n,
     unit |-> IF tf.unit = "d" THEN "D"
              ELSE IF tf.unit = "w" THEN "W"
              ELSE IF tf.unit = "m" THEN "ME"
              ELSE IF tf.unit = "h" THEN "H"
              ELSE tf.unit]

\* The sort key of line 285, in minutes: pd.to_timedelta of the pandas
\* frequency, and of '30D' for a frequency that ends with 'ME'.
tf_timedelta(tf) ==
    LET freq == tf_str_to_pandas_freq(tf)
    IN  IF freq.unit = "ME" THEN 30 * 24 * 60
        ELSE IF freq.unit = "D" THEN freq.n * 24 * 60
        ELSE IF freq.unit = "W" THEN freq.n * 7 * 24 * 60
        ELSE IF freq.unit = "H" THEN freq.n * 60
        ELSE freq.n

\* sorted(htf_data_dict.keys(), key=timedelta, reverse=True) on the keys in
\* insertion order: longest timedelta first, keys of equal timedelta in the
\* order they have in the dictionary (the sort is stable, also in reverse).
RECURSIVE sorted_htfs(_)
sorted_htfs(keys) ==
    IF keys = <<>> THEN <<>>
    ELSE LET longest == {k \in 1 .. Len(keys) :
                            \A j \in 1 .. Len(keys) :
                                tf_timedelta(keys[j]) <= tf_timedelta(keys[k])}
             first == Min(longest)
         IN  << keys[first] >>
             \o sorted_htfs(SubSeq(keys, 1, first - 1) \o SubSeq(keys, first + 1, Len(keys)))

\* The loop of lines 288-296 from position k of the sorted keys on: the
\* individual biases and the reasons collected, or the exception raised.
RECURSIVE collect_biases(_, _, _, _, _)
collect_biases(dict, order, k, acc, e) ==
    IF k > Len(order) THEN acc
    ELSE LET tf_str == order[k]
             entry == dict[tf_str]
         IN  IF ~ entry.is_none /\ entry.rows # <<>>
             THEN LET single == determine_single_htf_bias(entry.rows, tf_str, e)
                  IN  IF single.outcome # "return" THEN single
                      ELSE collect_biases(dict, order, k + 1,
                               [outcome |-> "return",
                                bias |-> Append(acc.bias, single.bias),
                                reasons |-> acc.reasons \o single.reasons], e)
             ELSE collect_biases(dict, order, k + 1,
                      [outcome |-> "return",
                       bias |-> acc.bias,
                       reasons |-> Append(acc.reasons, <<tf_str, "No data/empty">>)], e)

\* The first bias of the list that is not NEUTRAL, NEUTRAL when there is none.
first_clear_bias(individual_biases) ==
    LET clear == {k \in 1 .. Len(individual_biases) : individual_biases[k] # "NEUTRAL"}
    IN  IF clear = {} THEN "NEUTRAL" ELSE individual_biases[Min(clear)]

NoBiasArgs == [keys |-> <<>>]

get_overall_htf_bias(dict, keys, e) ==
    IF DOMAIN dict = {} THEN Returned("NEUTRAL", << "No HTF data provided." >>)
    ELSE LET collected == collect_biases(dict, sorted_htfs(keys), 1,
                                         Returned(<<>>, <<>>), e)
             individual_biases == collected.bias
         IN  IF collected.outcome # "return" THEN collected
             ELSE IF individual_biases = <<>>
             THEN Returned("NEUTRAL", << "HTF bias undetermined (no valid HTF data)." >>)
             ELSE IF ~ config_has("HTF_BIAS_CONSENSUS_REQUIRED") THEN Raised("AttributeError")
             ELSE IF e.HTF_BIAS_CONSENSUS_REQUIRED
             THEN IF /\ \A k \in 1 .. Len(individual_biases) :
                            individual_biases[k] = individual_biases[1]
                     /\ individual_biases[1] # "NEUTRAL"
                  THEN Returned(individual_biases[1], collected.reasons)
                  ELSE Returned("NEUTRAL", collected.reasons)
             ELSE Returned(first_clear_bias(individual_biases), collected.reasons)

-----------------------------------------------------------------------------
(* identify_key_htf_levels *)

\* identify_key_htf_levels and get_ltf_signals run under one setting of each
\* attribute they read from config.
LevelEnvironments ==
    [ICT_SWING_LOOKBACK_PERIODS : 1 .. MaxHtfLookback,
     ICT_MSS_SWING_LOOKBACK : {MaxHtfLookback + 1},
     HTF_BIAS_CONSENSUS_REQUIRED : {FALSE},
     ICT_OB_MIN_BODY_RATIO : {<<3, 10>>},
     FVG_THRESHOLD : {1},
     ICT_PD_ARRAY_LOOKBACK_PERIODS : {MaxPdLookback},
     ICT_PD_RETRACEMENT_LEVELS : PdLevelLists]

\* How the call ended: the list returned, or the exception raised.
LevelsReturned(list) == [outcome |-> "return", levels |-> list]
LevelsRaised(exception) == [outcome |-> exception, levels |-> <<>>]

\* proximity_threshold_pct = 0.02 (line 324), as ProximityNum / ProximityDen
ProximityNum == 2
ProximityDen == 100

\* abs(p - ltf_current_price) / ltf_current_price < proximity_threshold_pct,
\* for a price p in half-ticks (a midpoint, or twice a swing price) and a
\* positive ltf_current_price.
within_proximity(half_ticks, ltf_current_price) ==
    Abs(half_ticks - 2 * ltf_current_price) * ProximityDen
        < ProximityNum * 2 * ltf_current_price

\* The dictionaries appended to key_levels (lines 354, 360, 368, 373), without
\* their description.
ob_level(ob, tf_str) == ob @@ [level_type |-> "OB", timeframe |-> tf_str]
fvg_level(fvg, tf_str) == fvg @@ [level_type |-> "FVG", timeframe |-> tf_str]
swing_high_level(row, tf_str) ==
    [type |-> "buy_side_liquidity", timestamp |-> row.timestamp,
     price_level |-> row.High, level_type |-> "SwingHigh", timeframe |-> tf_str]
swing_low_level(row, tf_str) ==
    [type |-> "sell_side_liquidity", timestamp |-> row.timestamp,
     price_level |-> row.Low, level_type |-> "SwingLow", timeframe |-> tf_str]

\* The loop of lines 365-375 over rows k..last of the series.
RECURSIVE swing_levels(_, _, _, _, _, _)
swing_levels(htf_df, sw, k, last, tf_str, ltf_current_price) ==
    IF k > last THEN <<>>
    ELSE LET row == iloc(htf_df, k)
             high == IF /\ iloc(sw.Swing_High, k)
                        /\ within_proximity(2 * row.High, ltf_current_price)
                     THEN << swing_high_level(row, tf_str) >> ELSE <<>>
             low == IF /\ iloc(sw.Swing_Low, k)
                       /\ within_proximity(2 * row.Low, ltf_current_price)
                    THEN << swing_low_level(row, tf_str) >> ELSE <<>>
         IN  high \o low \o swing_levels(htf_df, sw, k + 1, last, tf_str, ltf_current_price)

\* One iteration of the loop of line 326: the levels of one timeframe, or the
\* exception raised.  htf_df.empty on None, the default argument of getattr
\* (line 335) and the descriptions (config.price_precision) raise
\* AttributeError.
htf_levels(tf_str, entry, current_ltf_timestamp, ltf_current_price, e) ==
    IF entry.is_none THEN LevelsRaised("AttributeError")
    ELSE LET htf_df == entry.rows
             L == e.ICT_SWING_LOOKBACK_PERIODS
         IN  IF htf_df = <<>> \/ Len(htf_df) < L * 2 + 1 THEN LevelsReturned(<<>>)
             ELSE IF ~ config_has("HTF_LEVEL_LOOKBACK_DEFAULT") THEN LevelsRaised("AttributeError")
             ELSE LET htf_df_with_swings == identify_swing_points(htf_df, L)
                      htf_elements_lookback == e.HTF_LEVEL_LOOKBACK_DEFAULT
                      at_or_before == {k \in 0 .. (Len(htf_df) - 1) :
                                          iloc(htf_df, k).timestamp <= current_ltf_timestamp}
                  IN  IF at_or_before = {} THEN LevelsReturned(<<>>)
                      ELSE LET latest == Max(at_or_before)
                               start == Max({0, latest - htf_elements_lookback + 1})
                               recent_htf_segment == SubSeq(htf_df, start + 1, latest + 1)
                               htf_obs == SelectSeq(
                                   identify_order_blocks(recent_htf_segment, e.ICT_OB_MIN_BODY_RATIO),
                                   LAMBDA ob : within_proximity(ob.ob_midpoint, ltf_current_price))
                               htf_fvgs == SelectSeq(
                                   identify_fvg(recent_htf_segment, e.FVG_THRESHOLD),
                                   LAMBDA fvg : within_proximity(fvg.fvg_midpoint, ltf_current_price))
                               found ==
                                   [k \in 1 .. Len(htf_obs) |-> ob_level(htf_obs[k], tf_str)]
                                   \o [k \in 1 .. Len(htf_fvgs) |-> fvg_level(htf_fvgs[k], tf_str)]
                                   \o swing_levels(htf_df, htf_df_with_swings,
                                                   Max({start, latest + 1 - L * 2}), latest,
                                                   tf_str, ltf_current_price)
                           IN  IF recent_htf_segment = <<>> THEN LevelsReturned(<<>>)
                               ELSE IF found # <<>> /\ ~ config_has("price_precision")
                               THEN LevelsRaised("AttributeError")
                               ELSE LevelsReturned(found)

\* The loop of line 326 from position k of htf_data_dict.items() on.
RECURSIVE collect_levels(_, _, _, _, _, _, _)
collect_levels(dict, items, k, acc, current_ltf_timestamp, ltf_current_price, e) ==
    IF k > Len(items) THEN LevelsReturned(acc)
    ELSE LET one == htf_levels(items[k], dict[items[k]],
                               current_ltf_timestamp, ltf_current_price, e)
         IN  IF one.outcome # "return" THEN one
             ELSE collect_levels(dict, items, k + 1, acc \o one.levels,
                                 current_ltf_timestamp, ltf_current_price, e)

\* The sort key of lines 378-379: the timeframe's duration, then the distance
\* in time from current_ltf_timestamp.
level_sort_key(x, current_ltf_timestamp) ==
    << tf_timedelta(x.timeframe), Abs(current_ltf_timestamp - x.timestamp) >>

key_less(a, b) == a[1] < b[1] \/ (a[1] = b[1] /\ a[2] < b[2])

\* list.sort(key=..., reverse=True): greatest key first, on both components;
\* elements with equal keys keep their order.
RECURSIVE sort_reversed(_, _)
sort_reversed(list, current_ltf_timestamp) ==
    IF list = <<>> THEN <<>>
    ELSE LET key(k) == level_sort_key(list[k], current_ltf_timestamp)
             greatest == {k \in 1 .. Len(list) :
                             \A j \in 1 .. Len(list) : ~ key_less(key(k), key(j))}
             first == Min(greatest)
         IN  << list[first] >>
             \o sort_reversed(SubSeq(list, 1, first - 1) \o SubSeq(list, first + 1, Len(list)),
                              current_ltf_timestamp)

\* list.sort is called with reverse=[True, False] (line 380).  An interpreter
\* that wants an integer there rejects the list with TypeError, whatever
\* key_levels holds; one that takes any object by its truth value sorts with
\* reverse=True.
ReverseArguments == {"rejected", "truthy"}

identify_key_htf_levels(dict, items, current_ltf_timestamp, ltf_current_price, e, reverse) ==
    IF DOMAIN dict = {} THEN LevelsReturned(<<>>)
    ELSE LET collected == collect_levels(dict, items, 1, <<>>,
                                         current_ltf_timestamp, ltf_current_price, e)
         IN  IF collected.outcome # "return" THEN collected
             ELSE IF reverse = "rejected" THEN LevelsRaised("TypeError")
             ELSE LevelsReturned(sort_reversed(collected.levels, current_ltf_timestamp))

\* The orders in which htf_data_dict.items() can deliver the keys: the order
\* in which the caller inserted them.
ItemOrders(dict) ==
    {items \in [1 .. Cardinality(DOMAIN dict) -> DOMAIN dict] :
        \A a \in DOMAIN items : \A b \in DOMAIN items : items[a] = items[b] => a = b}

NoLevelArgs ==
    [items |-> <<>>, current_ltf_timestamp |-> 0, ltf_current_price |-> 1, reverse |-> "rejected"]

-----------------------------------------------------------------------------
(* identify_liquidity_pools, get_ltf_signals *)

\* The pools that row i contributes (lines 232-238).
pools_of_row(d, sw, i) ==
    LET row == iloc(d, i)
        buy_side == IF iloc(sw.Swing_High, i)
                    THEN << [type |-> "buy_side_liquidity", timestamp |-> row.timestamp,
                             price_level |-> row.High] >>
                    ELSE <<>>
        sell_side == IF iloc(sw.Swing_Low, i)
                     THEN << [type |-> "sell_side_liquidity", timestamp |-> row.timestamp,
                              price_level |-> row.Low] >>
                     ELSE <<>>
    IN  buy_side \o sell_side

RECURSIVE pools_loop(_, _, _)
pools_loop(d, sw, i) ==
    IF i >= Len(d) THEN <<>> ELSE pools_of_row(d, sw, i) \o pools_loop(d, sw, i + 1)

identify_liquidity_pools(d, sw) == pools_loop(d, sw, 0)

\* How the call ended: the list returned, or the exception raised.
SignalsReturned(list) == [outcome |-> "return", signals |-> list]
SignalsRaised(exception) == [outcome |-> exception, signals |-> <<>>]

\* len(ltf_df_processed) < 50 (line 392)
MinLtfLength == 50

\* The series before any candle is delivered, with its RSI column.
NoLtf == [has_rsi |-> TRUE, rows |-> <<>>]

NoSignalArgs == [overall_htf_bias |-> "NEUTRAL", key_htf_levels |-> <<>>]

\* all_fvgs of line 397, as the set of its records: identify_fvg on the whole
\* series with the configured threshold, every gap of every middle row.
all_fvgs_of(ltf, e) ==
    UNION { LET found == fvg_step(ltf.rows, i, e.FVG_THRESHOLD)
            IN  {found[k] : k \in 1 .. Len(found)} : i \in 1 .. (Len(ltf.rows) - 2) }

\* Variant of get_ltf_signals whose early return carries a signal.
get_ltf_signals_emitting(ltf, overall_htf_bias, key_htf_levels, e) ==
    IF ltf.rows = <<>> \/ ~ ltf.has_rsi \/ Len(ltf.rows) < MinLtfLength
    THEN SignalsReturned(<< [trade_type |-> "buy", rsi_at_signal |-> 50] >>)
    ELSE SignalsRaised("AttributeError")

\* Lines 391-519.  The elements of lines 396-400 are computed and line 405
\* then reads config.ICT_SWEEP_MSS_LOOKBACK_CANDLES.  Past it, the sweep + MSS
\* blocks and the P/D fallback (lines 458-515) are placeholders that append
\* nothing to signals.  The for statement of line 461 has only comment lines
\* as its body, which the interpreter rejects when it compiles the module; the
\* loop is read here as a loop with an empty body.
get_ltf_signals(ltf, overall_htf_bias, key_htf_levels, e) ==
    IF ltf.rows = <<>> \/ ~ ltf.has_rsi \/ Len(ltf.rows) < MinLtfLength
    THEN SignalsReturned(<<>>)
    ELSE LET df_with_swings == identify_swing_points(ltf.rows, e.ICT_SWING_LOOKBACK_PERIODS)
             all_fvgs == identify_fvg(ltf.rows, e.FVG_THRESHOLD)
             all_order_blocks == identify_order_blocks(ltf.rows, e.ICT_OB_MIN_BODY_RATIO)
             all_market_shifts ==
                analyze_market_structure_shift(ltf.rows, df_with_swings, e.ICT_MSS_SWING_LOOKBACK)
             all_liquidity_pools == identify_liquidity_pools(ltf.rows, df_with_swings)
             eval_candle_idx == Len(ltf.rows) - 1
         IN  IF ~ config_has("ICT_SWEEP_MSS_LOOKBACK_CANDLES") THEN SignalsRaised("AttributeError")
             ELSE LET min_hist_needed ==
                          Max({e.ICT_SWEEP_MSS_LOOKBACK_CANDLES,
                               e.ICT_PD_ARRAY_LOOKBACK_PERIODS,
                               e.ICT_SWING_LOOKBACK_PERIODS * 2 + 1})
                      pd_array_info ==
                          get_premium_discount_array(ltf.rows, eval_candle_idx,
                                                     e.ICT_PD_ARRAY_LOOKBACK_PERIODS,
                                                     e.ICT_PD_RETRACEMENT_LEVELS)
                  IN  IF eval_candle_idx < min_hist_needed THEN SignalsReturned(<<>>)
                      ELSE SignalsReturned(<<>>)

-----------------------------------------------------------------------------
(* The structure pipeline: swings, then market-structure shifts *)

\* check_htf_level_interaction (lines 422-454), nested in get_ltf_signals and
\* closed over key_htf_levels.  A level is kept with the fields the function
\* reads; the lists hold the levels whose description the code appends.

\* The HTF levels identify_key_htf_levels builds: swing levels with their
\* price, OB and FVG levels with their bounds.
KeyHtfLevels ==
    [type : {"buy_side_liquidity"}, level_type : {"SwingHigh"}, price_level : HtfLevelPrices]
    \cup [type : {"sell_side_liquidity"}, level_type : {"SwingLow"}, price_level : HtfLevelPrices]
    \cup {h \in [type : {"bullish_ob", "bearish_ob"}, level_type : {"OB"},
                 ob_bottom : HtfLevelPrices, ob_top : HtfLevelPrices] : h.ob_bottom < h.ob_top}
    \cup {h \in [type : {"bullish_fvg", "bearish_fvg"}, level_type : {"FVG"},
                 fvg_bottom : HtfLevelPrices, fvg_top : HtfLevelPrices] : h.fvg_bottom < h.fvg_top}

\* h_level.get('ob_bottom', h_level.get('fvg_bottom', h_level.get('price_level')))
h_level_low(h) ==
    IF "ob_bottom" \in DOMAIN h THEN h.ob_bottom
    ELSE IF "fvg_bottom" \in DOMAIN h THEN h.fvg_bottom
    ELSE h.price_level

h_level_high(h) ==
    IF "ob_top" \in DOMAIN h THEN h.ob_top
    ELSE IF "fvg_top" \in DOMAIN h THEN h.fvg_top
    ELSE h.price_level

\* h_level.get('type','').startswith(prefix), on the type strings of the levels.
type_startswith(h, prefix) ==
    IF prefix = "bearish" THEN h.type \in {"bearish_ob", "bearish_fvg"}
    ELSE h.type \in {"bullish_ob", "bullish_fvg"}

\* buffer = entry_level * 0.001 (line 426); prices are compared in thousandths
\* of a tick, where the buffer is entry_level.
BufferDen == 1000
\* poi_top + (3 * buffer), poi_bottom - (3 * buffer)
FarBuffers == 3
\* confidence_mod *= 0.6, as <<num, den>>
ObstacleNum == 6
ObstacleDen == 10

\* What one level adds (lines 433-453): "obstacle", "target" or "none".
level_interaction(h, trade_type, entry_level, poi_top, poi_bottom) ==
    LET low == h_level_low(h) * BufferDen
        high == h_level_high(h) * BufferDen
        top == poi_top * BufferDen
        bottom == poi_bottom * BufferDen
        buffer == entry_level
    IN  IF trade_type = "buy"
        THEN IF type_startswith(h, "bearish") \/ h.level_type = "SwingHigh"
             THEN IF top - buffer < low /\ low < top + FarBuffers * buffer
                  THEN "obstacle" ELSE "none"
             ELSE IF /\ h.level_type = "SwingHigh" \/ type_startswith(h, "bullish")
                     /\ low > top + FarBuffers * buffer
             THEN "target" ELSE "none"
        ELSE IF trade_type = "sell"
        THEN IF type_startswith(h, "bullish") \/ h.level_type = "SwingLow"
             THEN IF bottom + buffer > high /\ high > bottom - FarBuffers * buffer
                  THEN "obstacle" ELSE "none"
             ELSE IF /\ h.level_type = "SwingLow" \/ type_startswith(h, "bearish")
                     /\ high < bottom - FarBuffers * buffer
             THEN "target" ELSE "none"
        ELSE "none"

NoInteraction == [obstacles |-> <<>>, targets |-> <<>>, confidence_mod |-> <<1, 1>>]
NoInteractionArgs == [trade_type |-> "buy", entry_level |-> 0, poi_top |-> 0, poi_bottom |-> 0]

\* The loop of line 428 from position k of key_htf_levels on.
RECURSIVE interaction_loop(_, _, _, _, _, _, _)
interaction_loop(key_htf_levels, k, acc, trade_type, entry_level, poi_top, poi_bottom) ==
    IF k > Len(key_htf_levels) THEN acc
    ELSE LET h_level == key_htf_levels[k]
             kind == level_interaction(h_level, trade_type, entry_level, poi_top, poi_bottom)
         IN  interaction_loop(key_htf_levels, k + 1,
                 IF kind = "obstacle"
                 THEN [acc EXCEPT !.obstacles = Append(@, h_level),
                                  !.confidence_mod = << @[1] * ObstacleNum, @[2] * ObstacleDen >>]
                 ELSE IF kind = "target"
                 THEN [acc EXCEPT !.targets = Append(@, h_level)]
                 ELSE acc,
                 trade_type, entry_level, poi_top, poi_bottom)

check_htf_level_interaction(key_htf_levels, trade_type, entry_level, poi_top, poi_bottom) ==
    interaction_loop(key_htf_levels, 1, NoInteraction, trade_type, entry_level, poi_top, poi_bottom)

-----------------------------------------------------------------------------

structureVars == <<lookback, df_out, mss_swing_lookback, shifts>>
gapVars == <<min_body_ratio, order_blocks, fvg_threshold, fvgs>>
pdVars == <<pd_args, pd_array>>
biasVars == <<env, htf_data_dict, htf_bias, bias_args>>
levelVars == <<level_args, key_levels>>
signalVars == <<ltf_df_processed, signal_args, signals, interaction_args, interaction>>

NoSwings == [Swing_High |-> <<>>, Swing_Low |-> <<>>]

Init ==
    /\ df = <<>>
    /\ pc = "load"
    /\ lookback = 0
    /\ df_out = NoSwings
    /\ mss_swing_lookback = 0
    /\ shifts = <<>>
    /\ min_body_ratio = <<0, 1>>
    /\ order_blocks = <<>>
    /\ fvg_threshold = 0
    /\ fvgs = <<>>
    /\ pd_args = [current_candle_index |-> 0, lookback |-> 0, levels |-> <<>>]
    /\ pd_array = NoArray
    /\ env = DefaultEnvironment
    /\ htf_data_dict = <<>>
    /\ htf_bias = Returned("NEUTRAL", <<>>)
    /\ bias_args = NoBiasArgs
    /\ level_args = NoLevelArgs
    /\ key_levels = LevelsReturned(<<>>)
    /\ ltf_df_processed = NoLtf
    /\ signal_args = NoSignalArgs
    /\ signals = SignalsReturned(<<>>)
    /\ interaction_args = NoInteractionArgs
    /\ interaction = NoInteraction

\* The data layer delivers the next closed candle.
LoadCandle ==
    /\ pc = "load"
    /\ Len(df) < MaxLen
    /\ \E c \in StructureCandles : df' = Append(df, Stamp(c, Len(df)))
    /\ UNCHANGED <<pc, lookback, df_out, mss_swing_lookback, shifts>>
    /\ UNCHANGED <<gapVars, pdVars, biasVars, levelVars, signalVars>>

IdentifySwingPoints ==
    /\ pc = "load"
    /\ \E L \in 1..MaxLookback :
        /\ lookback' = L
        /\ df_out' = identify_swing_points(df, L)
    /\ pc' = "swings"
    /\ UNCHANGED <<df, mss_swing_lookback, shifts>>
    /\ UNCHANGED <<gapVars, pdVars, biasVars, levelVars, signalVars>>

AnalyzeMarketStructureShift ==
    /\ pc = "swings"
    /\ \E m \in 1..MaxMssLookback :
        /\ mss_swing_lookback' = m
        /\ shifts' = analyze_market_structure_shift(df, df_out, m)
    /\ pc' = "mss"
    /\ UNCHANGED <<df, lookback, df_out>>
    /\ UNCHANGED <<gapVars, pdVars, biasVars, levelVars, signalVars>>

Next ==
    \/ LoadCandle
    \/ IdentifySwingPoints
    \/ AnalyzeMarketStructureShift

Spec == Init /\ [][Next]_vars

-----------------------------------------------------------------------------
(* Swings and structure shifts of a longer series *)

LoadLongCandle ==
    /\ pc = "load"
    /\ Len(df) < MaxLongLen
    /\ \E c \in LongCandles : df' = Append(df, Stamp(c, Len(df)))
    /\ UNCHANGED <<pc, lookback, df_out, mss_swing_lookback, shifts>>
    /\ UNCHANGED <<gapVars, pdVars, biasVars, levelVars, signalVars>>

AnalyzeLongStructure ==
    /\ pc = "swings"
    /\ \E m \in 1..MaxLongMssLookback :
        /\ mss_swing_lookback' = m
        /\ shifts' = analyze_market_structure_shift(df, df_out, m)
    /\ pc' = "mss"
    /\ UNCHANGED <<df, lookback, df_out>>
    /\ UNCHANGED <<gapVars, pdVars, biasVars, levelVars, signalVars>>

NextLong ==
    \/ LoadLongCandle
    \/ IdentifySwingPoints
    \/ AnalyzeLongStructure

SpecLong == Init /\ [][NextLong]_vars

-----------------------------------------------------------------------------
(* The gap detectors: order blocks and fair-value gaps of a short series *)

LoadGapCandle ==
    /\ pc = "load"
    /\ Len(df) < MaxGapLen
    /\ \E c \in GapCandles : df' = Append(df, Stamp(c, Len(df)))
    /\ UNCHANGED <<pc, structureVars, gapVars, pdVars, biasVars, levelVars, signalVars>>

IdentifyOrderBlocks ==
    /\ pc = "load"
    /\ \E ratio \in MinBodyRatios :
        /\ min_body_ratio' = ratio
        /\ order_blocks' = identify_order_blocks(df, ratio)
    /\ pc' = "ob"
    /\ UNCHANGED <<df, structureVars, fvg_threshold, fvgs, pdVars, biasVars, levelVars, signalVars>>

IdentifyFvg ==
    /\ pc = "load"
    /\ \E threshold \in FvgThresholds :
        /\ fvg_threshold' = threshold
        /\ fvgs' = identify_fvg(df, threshold)
    /\ pc' = "fvg"
    /\ UNCHANGED <<df, structureVars, min_body_ratio, order_blocks, pdVars, biasVars,
                   levelVars, signalVars>>

NextGaps ==
    \/ LoadGapCandle
    \/ IdentifyOrderBlocks
    \/ IdentifyFvg

SpecGaps == Init /\ [][NextGaps]_vars

-----------------------------------------------------------------------------
(* The premium/discount calculator on a short series *)

LoadPdCandle ==
    /\ pc = "load"
    /\ Len(df) < MaxPdLen
    /\ \E c \in PdCandles : df' = Append(df, Stamp(c, Len(df)))
    /\ UNCHANGED <<pc, structureVars, gapVars, pdVars, biasVars, levelVars, signalVars>>

GetPremiumDiscountArray ==
    /\ pc = "load"
    /\ \E current_candle_index \in 0 .. MaxPdLen :
       \E lb \in 0 .. MaxPdLookback :
       \E levels \in PdLevelLists :
        /\ pd_args' = [current_candle_index |-> current_candle_index,
                       lookback |-> lb, levels |-> levels]
        /\ pd_array' = get_premium_discount_array(df, current_candle_index, lb, levels)
    /\ pc' = "pd"
    /\ UNCHANGED <<df, structureVars, gapVars, biasVars, levelVars, signalVars>>

NextPd ==
    \/ LoadPdCandle
    \/ GetPremiumDiscountArray

SpecPd == Init /\ [][NextPd]_vars

-----------------------------------------------------------------------------
(* The HTF bias aggregator on the configured timeframes *)

InitBias ==
    /\ df = <<>>
    /\ pc = "load"
    /\ lookback = 0
    /\ df_out = NoSwings
    /\ mss_swing_lookback = 0
    /\ shifts = <<>>
    /\ min_body_ratio = <<0, 1>>
    /\ order_blocks = <<>>
    /\ fvg_threshold = 0
    /\ fvgs = <<>>
    /\ pd_args = [current_candle_index |-> 0, lookback |-> 0, levels |-> <<>>]
    /\ pd_array = NoArray
    /\ env \in Environments
    /\ htf_data_dict = <<>>
    /\ htf_bias = Returned("NEUTRAL", <<>>)
    /\ bias_args = NoBiasArgs
    /\ level_args = NoLevelArgs
    /\ key_levels = LevelsReturned(<<>>)
    /\ ltf_df_processed = NoLtf
    /\ signal_args = NoSignalArgs
    /\ signals = SignalsReturned(<<>>)
    /\ interaction_args = NoInteractionArgs
    /\ interaction = NoInteraction

\* The caller puts a timeframe in the dictionary: with None (no data fetched)
\* or with an empty series.
AddTimeframe ==
    /\ pc = "load"
    /\ \E tf \in HTF_TIMEFRAMES \ DOMAIN htf_data_dict :
       \E none \in BOOLEAN :
        htf_data_dict' =
            [k \in DOMAIN htf_data_dict \cup {tf} |->
                IF k = tf THEN [is_none |-> none, rows |-> <<>>] ELSE htf_data_dict[k]]
    /\ UNCHANGED <<df, pc, structureVars, gapVars, pdVars, env, htf_bias, bias_args,
                   levelVars, signalVars>>

\* The data layer delivers the next closed candle of a timeframe.
LoadHtfCandle ==
    /\ pc = "load"
    /\ \E tf \in DOMAIN htf_data_dict :
       \E c \in HtfCandles :
        /\ ~ htf_data_dict[tf].is_none
        /\ Len(htf_data_dict[tf].rows) < MaxHtfLen
        /\ htf_data_dict' =
            [htf_data_dict EXCEPT ![tf].rows = Append(@, Stamp(c, Len(@)))]
    /\ UNCHANGED <<df, pc, structureVars, gapVars, pdVars, env, htf_bias, bias_args,
                   levelVars, signalVars>>

GetOverallHtfBias ==
    /\ pc = "load"
    /\ \E keys \in ItemOrders(htf_data_dict) :
        /\ bias_args' = [keys |-> keys]
        /\ htf_bias' = get_overall_htf_bias(htf_data_dict, keys, env)
    /\ pc' = "bias"
    /\ UNCHANGED <<df, structureVars, gapVars, pdVars, env, htf_data_dict, levelVars, signalVars>>

NextBias ==
    \/ AddTimeframe
    \/ LoadHtfCandle
    \/ GetOverallHtfBias

SpecBias == InitBias /\ [][NextBias]_vars

-----------------------------------------------------------------------------
(* The HTF bias aggregator on timeframes of every unit *)

TimeframeStrings == [n : Multipliers, unit : {"min", "h", "d", "w", "m"}]

\* The caller puts a timeframe of any unit in the dictionary, without data.
AddAnyTimeframe ==
    /\ pc = "load"
    /\ Cardinality(DOMAIN htf_data_dict) < MaxTimeframes
    /\ \E tf \in TimeframeStrings \ DOMAIN htf_data_dict :
       \E none \in BOOLEAN :
        htf_data_dict' =
            [k \in DOMAIN htf_data_dict \cup {tf} |->
                IF k = tf THEN [is_none |-> none, rows |-> <<>>] ELSE htf_data_dict[k]]
    /\ UNCHANGED <<df, pc, structureVars, gapVars, pdVars, env, htf_bias, bias_args,
                   levelVars, signalVars>>

NextOrder ==
    \/ AddAnyTimeframe
    \/ GetOverallHtfBias

SpecOrder == InitBias /\ [][NextOrder]_vars

-----------------------------------------------------------------------------
(* The key-level filter on the configured timeframes *)

InitLevels ==
    /\ df = <<>>
    /\ pc = "load"
    /\ lookback = 0
    /\ df_out = NoSwings
    /\ mss_swing_lookback = 0
    /\ shifts = <<>>
    /\ min_body_ratio = <<0, 1>>
    /\ order_blocks = <<>>
    /\ fvg_threshold = 0
    /\ fvgs = <<>>
    /\ pd_args = [current_candle_index |-> 0, lookback |-> 0, levels |-> <<>>]
    /\ pd_array = NoArray
    /\ env \in LevelEnvironments
    /\ htf_data_dict = <<>>
    /\ htf_bias = Returned("NEUTRAL", <<>>)
    /\ bias_args = NoBiasArgs
    /\ level_args = NoLevelArgs
    /\ key_levels = LevelsReturned(<<>>)
    /\ ltf_df_processed = NoLtf
    /\ signal_args = NoSignalArgs
    /\ signals = SignalsReturned(<<>>)
    /\ interaction_args = NoInteractionArgs
    /\ interaction = NoInteraction

\* The data layer delivers the next closed candle of a timeframe.
LoadLevelCandle ==
    /\ pc = "load"
    /\ \E tf \in DOMAIN htf_data_dict :
       \E c \in HtfCandles :
        /\ ~ htf_data_dict[tf].is_none
        /\ Len(htf_data_dict[tf].rows) < MaxLevelLen
        /\ htf_data_dict' =
            [htf_data_dict EXCEPT ![tf].rows = Append(@, Stamp(c, Len(@)))]
    /\ UNCHANGED <<df, pc, structureVars, gapVars, pdVars, env, htf_bias, bias_args,
                   levelVars, signalVars>>

IdentifyKeyHtfLevels ==
    /\ pc = "load"
    /\ \E items \in ItemOrders(htf_data_dict) :
       \E current_ltf_timestamp \in 0 .. MaxLevelTime :
       \E ltf_current_price \in 1 .. MaxHtfPrice :
       \E reverse \in ReverseArguments :
        /\ level_args' = [items |-> items,
                          current_ltf_timestamp |-> current_ltf_timestamp,
                          ltf_current_price |-> ltf_current_price,
                          reverse |-> reverse]
        /\ key_levels' = identify_key_htf_levels(htf_data_dict, items, current_ltf_timestamp,
                                                 ltf_current_price, env, reverse)
    /\ pc' = "levels"
    /\ UNCHANGED <<df, structureVars, gapVars, pdVars, biasVars, signalVars>>

NextLevels ==
    \/ AddTimeframe
    \/ LoadLevelCandle
    \/ IdentifyKeyHtfLevels

SpecLevels == InitLevels /\ [][NextLevels]_vars

-----------------------------------------------------------------------------
(* The signal synthesizer on an LTF series *)

LtfCandles ==
    {c \in OHLC : c.High = c.Low /\ WellFormed(c) /\ c.High <= MaxLtfPrice}

WithRsi(c, t, rsi) ==
    [timestamp |-> t, Open |-> c.Open, High |-> c.High, Low |-> c.Low,
     Close |-> c.Close, RSI |-> rsi]

\* The length of the flat history: two candles short of the minimum length.
LtfHistoryLength == MinLtfLength - 2

InitSignals ==
    /\ df = <<>>
    /\ pc = "load"
    /\ lookback = 0
    /\ df_out = NoSwings
    /\ mss_swing_lookback = 0
    /\ shifts = <<>>
    /\ min_body_ratio = <<0, 1>>
    /\ order_blocks = <<>>
    /\ fvg_threshold = 0
    /\ fvgs = <<>>
    /\ pd_args = [current_candle_index |-> 0, lookback |-> 0, levels |-> <<>>]
    /\ pd_array = NoArray
    /\ env \in LevelEnvironments
    /\ htf_data_dict = <<>>
    /\ htf_bias = Returned("NEUTRAL", <<>>)
    /\ bias_args = NoBiasArgs
    /\ level_args = NoLevelArgs
    /\ key_levels = LevelsReturned(<<>>)
    /\ ltf_df_processed \in {[has_rsi |-> has_rsi, rows |-> <<>>] : has_rsi \in BOOLEAN}
    /\ signal_args = NoSignalArgs
    /\ signals = SignalsReturned(<<>>)
    /\ interaction_args = NoInteractionArgs
    /\ interaction = NoInteraction

\* The data layer delivers a flat history of LtfHistoryLength candles.
LoadLtfHistory ==
    /\ pc = "load"
    /\ ltf_df_processed.rows = <<>>
    /\ \E c \in LtfCandles :
        ltf_df_processed' =
            [ltf_df_processed EXCEPT
                !.rows = [p \in 1 .. LtfHistoryLength |-> WithRsi(c, p - 1, 50)]]
    /\ UNCHANGED <<df, pc, structureVars, gapVars, pdVars, biasVars, levelVars,
                   signal_args, signals, interaction_args, interaction>>

\* The data layer delivers the next closed candle, with its RSI reading.
LoadLtfCandle ==
    /\ pc = "load"
    /\ \/ Len(ltf_df_processed.rows) < MaxLtfTail
       \/ /\ Len(ltf_df_processed.rows) >= LtfHistoryLength
          /\ Len(ltf_df_processed.rows) < LtfHistoryLength + MaxLtfTail
    /\ \E c \in LtfCandles :
       \E rsi \in RsiReadings :
        ltf_df_processed' =
            [ltf_df_processed EXCEPT !.rows = Append(@, WithRsi(c, Len(@), rsi))]
    /\ UNCHANGED <<df, pc, structureVars, gapVars, pdVars, biasVars, levelVars,
                   signal_args, signals, interaction_args, interaction>>

GetLtfSignals ==
    /\ pc = "load"
    /\ \E overall_htf_bias \in {"BULLISH", "BEARISH", "NEUTRAL"} :
        /\ signal_args' = [overall_htf_bias |-> overall_htf_bias, key_htf_levels |-> <<>>]
        /\ signals' = get_ltf_signals(ltf_df_processed, overall_htf_bias, <<>>, env)
    /\ pc' = "signals"
    /\ UNCHANGED <<df, structureVars, gapVars, pdVars, biasVars, levelVars, ltf_df_processed,
                   interaction_args, interaction>>

NextSignals ==
    \/ LoadLtfHistory
    \/ LoadLtfCandle
    \/ GetLtfSignals

SpecSignals == InitSignals /\ [][NextSignals]_vars

-----------------------------------------------------------------------------
(* The HTF level interaction check on a short list of key levels *)

\* identify_key_htf_levels hands one more level to get_ltf_signals.
AddKeyHtfLevel ==
    /\ pc = "load"
    /\ Len(signal_args.key_htf_levels) < MaxKeyLevels
    /\ \E h \in KeyHtfLevels :
        signal_args' = [signal_args EXCEPT !.key_htf_levels = Append(@, h)]
    /\ UNCHANGED <<df, pc, structureVars, gapVars, pdVars, biasVars, levelVars,
                   ltf_df_processed, signals, interaction_args, interaction>>

CheckHtfLevelInteraction ==
    /\ pc = "load"
    /\ \E trade_type \in {"buy", "sell"} :
       \E poi \in PointsOfInterest :
        /\ interaction_args' = [trade_type |-> trade_type, entry_level |-> poi.entry_level,
                                poi_top |-> poi.poi_top, poi_bottom |-> poi.poi_bottom]
        /\ interaction' = check_htf_level_interaction(signal_args.key_htf_levels, trade_type,
                                                      poi.entry_level, poi.poi_top, poi.poi_bottom)
    /\ pc' = "interaction"
    /\ UNCHANGED <<df, structureVars, gapVars, pdVars, biasVars, levelVars,
                   ltf_df_processed, signal_args, signals>>

NextInteraction ==
    \/ AddKeyHtfLevel
    \/ CheckHtfLevelInteraction

SpecInteraction == Init /\ [][NextInteraction]_vars

-----------------------------------------------------------------------------
(* Properties of identify_swing_points *)

Rows == 0 .. (Len(df) - 1)

\* Rows i and j lie in one contiguous run of equal values of the column.
SameRunHigh(i, j) ==
    \A k \in Min({i, j}) .. Max({i, j}) : iloc(df, k).High = iloc(df, i).High
SameRunLow(i, j) ==
    \A k \in Min({i, j}) .. Max({i, j}) : iloc(df, k).Low = iloc(df, i).Low

\* C1: every candle marked Swing_High has a High strictly greater than the High
\* of every other candle within lookback rows of it, except the candles of the
\* contiguous run of equal highs that contains it; mirrored for Swing_Low.
C1_SwingStrictWithinWindow ==
    pc = "swings" =>
        \A i \in Rows : \A j \in Rows :
            (j # i /\ Abs(i - j) <= lookback) =>
                /\ (iloc(df_out.Swing_High, i) /\ ~ SameRunHigh(i, j))
                        => iloc(df, j).High < iloc(df, i).High
                /\ (iloc(df_out.Swing_Low, i) /\ ~ SameRunLow(i, j))
                        => iloc(df, j).Low > iloc(df, i).Low

\* lo..hi is a maximal contiguous run of equal highs (lows).
MaximalRunHigh(lo, hi) ==
    /\ lo <= hi
    /\ SameRunHigh(lo, hi)
    /\ lo > 0 => iloc(df, lo - 1).High # iloc(df, lo).High
    /\ hi < Len(df) - 1 => iloc(df, hi + 1).High # iloc(df, lo).High
MaximalRunLow(lo, hi) ==
    /\ lo <= hi
    /\ SameRunLow(lo, hi)
    /\ lo > 0 => iloc(df, lo - 1).Low # iloc(df, lo).Low
    /\ hi < Len(df) - 1 => iloc(df, hi + 1).Low # iloc(df, lo).Low

\* Row j is outside the run lo..hi and within L rows of a member of it.
NearRun(j, lo, hi, L) ==
    /\ j \notin lo..hi
    /\ \E k \in lo..hi : Abs(j - k) <= L

\* C2: a maximal run of equal highs whose members all lie in [L, n-L) and whose
\* neighbours within L rows are all strictly lower has exactly one member
\* marked Swing_High, whatever its length; mirrored for lows.
C2_PlateauCollapsesToOnePeak ==
    pc = "swings" =>
        \A lo \in Rows : \A hi \in Rows :
            /\ ( /\ MaximalRunHigh(lo, hi)
                 /\ lo >= lookback /\ hi < Len(df) - lookback
                 /\ \A j \in Rows : NearRun(j, lo, hi, lookback)
                        => iloc(df, j).High < iloc(df, lo).High )
                => Cardinality({k \in lo..hi : iloc(df_out.Swing_High, k)}) = 1
            /\ ( /\ MaximalRunLow(lo, hi)
                 /\ lo >= lookback /\ hi < Len(df) - lookback
                 /\ \A j \in Rows : NearRun(j, lo, hi, lookback)
                        => iloc(df, j).Low > iloc(df, lo).Low )
                => Cardinality({k \in lo..hi : iloc(df_out.Swing_Low, k)}) = 1

\* C17: for a series of fewer than 2*lookback+1 candles, the empty series
\* included, identify_swing_points returns a series of the same length in which
\* no candle is marked Swing_High or Swing_Low.
C17_ShortSeriesUnmarked ==
    (pc = "swings" /\ Len(df) < 2 * lookback + 1) =>
        /\ Len(df_out.Swing_High) = Len(df)
        /\ Len(df_out.Swing_Low) = Len(df)
        /\ \A i \in Rows : ~ iloc(df_out.Swing_High, i) /\ ~ iloc(df_out.Swing_Low, i)

\* The call returned for a series one candle short of 2*lookback+1, under the
\* largest lookback.
C17_Witness ==
    /\ pc = "swings"
    /\ lookback = MaxLookback
    /\ Len(df) = 2 * lookback
    /\ Len(df_out.Swing_High) = Len(df)

\* High[i] is strictly greater than the High of each of the L candles before
\* row i and each of the L candles after it (mirrored for Low).
StrictWindowHigh(d, i, L) ==
    /\ L <= i /\ i < Len(d) - L
    /\ \A j \in 1..L : /\ iloc(d, i).High > iloc(d, i - j).High
                        /\ iloc(d, i).High > iloc(d, i + j).High
StrictWindowLow(d, i, L) ==
    /\ L <= i /\ i < Len(d) - L
    /\ \A j \in 1..L : /\ iloc(d, i).Low < iloc(d, i - j).Low
                        /\ iloc(d, i).Low < iloc(d, i + j).Low

\* Scenario A of section 8: highs [1,2,5,3,2,1] with lookback 2 mark index 2
\* and no other index.
ScenarioA_Series ==
    [p \in 1..6 |->
        LET h == <<1, 2, 5, 3, 2, 1>>[p]
        IN  [timestamp |-> p - 1, Open |-> h, High |-> h, Low |-> h, Close |-> h]]
ScenarioA_OnlyIndexTwo ==
    identify_swing_points(ScenarioA_Series, 2).Swing_High
        = <<FALSE, FALSE, TRUE, FALSE, FALSE, FALSE>>

\* C19: every row i with L <= i < n-L whose High is strictly greater than the
\* High of each of the L candles before it and after it is marked Swing_High
\* (mirrored for Swing_Low), and Scenario A comes out as stated.
C19_StrictPeaksAreMarked ==
    /\ ScenarioA_OnlyIndexTwo
    /\ pc = "swings" =>
        \A i \in Rows :
            /\ StrictWindowHigh(df, i, lookback) => iloc(df_out.Swing_High, i)
            /\ StrictWindowLow(df, i, lookback) => iloc(df_out.Swing_Low, i)

\* Under the largest lookback, the last row the loop visits is a strict peak
\* and is marked.
C19_Witness ==
    /\ pc = "swings"
    /\ lookback = MaxLookback
    /\ Len(df) >= 2 * lookback + 1
    /\ StrictWindowHigh(df, Len(df) - lookback - 1, lookback)
    /\ iloc(df_out.Swing_High, Len(df) - lookback - 1)

\* C26: two distinct candles marked Swing_High are more than lookback rows
\* apart, and likewise two candles marked Swing_Low; no candle on a row below
\* lookback or at or above n - lookback is marked.
C26_SwingsSpacedAndInside ==
    pc = "swings" =>
        \A i \in Rows :
            /\ (iloc(df_out.Swing_High, i) \/ iloc(df_out.Swing_Low, i)) =>
                    (lookback <= i /\ i < Len(df) - lookback)
            /\ \A j \in Rows :
                i < j =>
                    /\ (iloc(df_out.Swing_High, i) /\ iloc(df_out.Swing_High, j))
                            => j - i > lookback
                    /\ (iloc(df_out.Swing_Low, i) /\ iloc(df_out.Swing_Low, j))
                            => j - i > lookback

\* Two candles are marked Swing_High exactly lookback + 1 rows apart, the
\* second followed by a lower High.
C26_Witness ==
    /\ pc = "swings"
    /\ \E i \in Rows : \E j \in Rows :
        /\ j = i + lookback + 1
        /\ iloc(df_out.Swing_High, i)
        /\ iloc(df_out.Swing_High, j)
        /\ j + 1 \in Rows
        /\ iloc(df, j).High > iloc(df, j + 1).High

-----------------------------------------------------------------------------
(* Properties of analyze_market_structure_shift *)

\* The row of df that carries timestamp t.
RowAt(t) == CHOOSE i \in Rows : iloc(df, i).timestamp = t

Events == 1 .. Len(shifts)

\* C5: a bullish_mss has as break_level the High of a candle flagged
\* Swing_High on a row strictly before the triggering candle, and the
\* triggering candle closed strictly above it; a bearish_mss mirrors this with
\* Swing_Low and Low; the event's timestamp is the triggering candle's.
C5_MssBreaksPriorSwing ==
    pc = "mss" =>
        \A e \in Events :
            /\ \E i \in Rows : iloc(df, i).timestamp = shifts[e].timestamp
            /\ LET i == RowAt(shifts[e].timestamp)
               IN  /\ shifts[e].break_candle_close = iloc(df, i).Close
                   /\ shifts[e].type = "bullish_mss" =>
                        /\ iloc(df, i).Close > shifts[e].break_level
                        /\ \E s \in 0 .. (i - 1) :
                              /\ iloc(df_out.Swing_High, s)
                              /\ iloc(df, s).High = shifts[e].break_level
                   /\ shifts[e].type = "bearish_mss" =>
                        /\ iloc(df, i).Close < shifts[e].break_level
                        /\ \E s \in 0 .. (i - 1) :
                              /\ iloc(df_out.Swing_Low, s)
                              /\ iloc(df, s).Low = shifts[e].break_level

\* Both kinds of event have been emitted for one series.
C5_Witness ==
    /\ pc = "mss"
    /\ \E e \in Events : shifts[e].type = "bullish_mss"
    /\ \E e \in Events : shifts[e].type = "bearish_mss"

\* C6: the events are in candle order (timestamps never decrease) and no two
\* adjacent events have the same type and the same broken swing.
C6_MssOrderedNoAdjacentRepeat ==
    pc = "mss" =>
        \A e \in Events : e < Len(shifts) =>
            /\ shifts[e].timestamp <= shifts[e + 1].timestamp
            /\ ~ ( /\ shifts[e].type = shifts[e + 1].type
                   /\ shifts[e].broken_swing_ts = shifts[e + 1].broken_swing_ts )

\* Two events of different candles were emitted.
C6_Witness ==
    /\ pc = "mss"
    /\ Len(shifts) >= 2
    /\ shifts[1].timestamp < shifts[2].timestamp

\* A candle that closed above the swing high the last event had broken
\* produced no event of its own.
MssRepeatSuppressed ==
    /\ pc = "mss"
    /\ Len(shifts) >= 1
    /\ \E i \in Rows :
        /\ i >= mss_swing_lookback
        /\ \A e \in Events : shifts[e].timestamp # iloc(df, i).timestamp
        /\ LET prior == prior_series(df_out.Swing_High, mss_swing_lookback, i)
           IN  /\ prior # {}
               /\ iloc(df, i).Close > iloc(df, Max(prior)).High

\* The rows of the trailing window of row i that carry the flag.
FlaggedBefore(flags, i) ==
    {k \in Rows : /\ k < i
                  /\ k >= i - mss_swing_lookback
                  /\ iloc(flags, k)}

\* The column of flags and the kind of price an event type is about.
FlagsOf(type) == IF type = "bullish_mss" THEN df_out.Swing_High ELSE df_out.Swing_Low

\* Row i closed beyond the swing price of row s, in the direction of the type.
ClosedBeyond(type, i, s) ==
    IF type = "bullish_mss"
    THEN iloc(df, i).Close > iloc(df, s).High
    ELSE iloc(df, i).Close < iloc(df, s).Low

\* C23: an MSS event triggered on row i references the most recent swing of
\* its kind before i in the trailing window: its row s has
\* max(0, i - mss_lookback) <= s < i, carries the flag, and no row strictly
\* between s and i carries it; no event is triggered on a row below
\* mss_lookback; a row that closes beyond an older swing of the window but not
\* beyond the most recent one triggers no event of that type.
C23_MssBreaksMostRecentSwing ==
    pc = "mss" =>
        /\ \A e \in Events :
            LET i == RowAt(shifts[e].timestamp)
                s == RowAt(shifts[e].broken_swing_ts)
                flags == FlagsOf(shifts[e].type)
            IN  /\ i >= mss_swing_lookback
                /\ s < i /\ s >= 0 /\ s >= i - mss_swing_lookback
                /\ iloc(flags, s)
                /\ \A k \in Rows : (s < k /\ k < i) => ~ iloc(flags, k)
        /\ \A type \in {"bullish_mss", "bearish_mss"} :
           \A i \in Rows :
            LET window == FlaggedBefore(FlagsOf(type), i)
            IN  (window # {} /\ ~ ClosedBeyond(type, i, Max(window))) =>
                    ~ \E e \in Events : /\ shifts[e].type = type
                                        /\ shifts[e].timestamp = iloc(df, i).timestamp

\* An event broke the most recent of two swings of its kind in its window.
C23_Witness ==
    /\ pc = "mss"
    /\ \E e \in Events :
        LET i == RowAt(shifts[e].timestamp)
            window == FlaggedBefore(FlagsOf(shifts[e].type), i)
        IN  /\ Cardinality(window) >= 2
            /\ RowAt(shifts[e].broken_swing_ts) = Max(window)

\* A row closed above an older swing high of its window but not above the most
\* recent one, and triggered no event.
MssOlderSwingIgnored ==
    /\ pc = "mss"
    /\ \E i \in Rows :
        LET window == FlaggedBefore(df_out.Swing_High, i)
        IN  /\ i >= mss_swing_lookback
            /\ Cardinality(window) >= 2
            /\ ClosedBeyond("bullish_mss", i, Min(window))
            /\ ~ ClosedBeyond("bullish_mss", i, Max(window))
            /\ \A e \in Events : shifts[e].timestamp # iloc(df, i).timestamp

\* C27: with swings annotated under lookback L on well-formed candles, every
\* MSS event is triggered more than L rows after the candle of the swing it
\* breaks.
C27_MssAfterConfirmation ==
    (pc = "mss" /\ \A k \in Rows : WellFormed(iloc(df, k))) =>
        \A e \in Events :
            RowAt(shifts[e].timestamp) - RowAt(shifts[e].broken_swing_ts) > lookback

\* A swing low was broken by the first candle after its look-ahead window.
C27_Witness ==
    /\ pc = "mss"
    /\ \E e \in Events :
        /\ shifts[e].type = "bearish_mss"
        /\ RowAt(shifts[e].timestamp) = RowAt(shifts[e].broken_swing_ts) + lookback + 1

\* C28: each pair (type, broken_swing_ts) occurs at most once in the returned
\* list, also when events of the other type lie in between.
C28_MssPairAtMostOnce ==
    pc = "mss" =>
        \A a \in Events : \A b \in Events :
            ( /\ shifts[a].type = shifts[b].type
              /\ shifts[a].broken_swing_ts = shifts[b].broken_swing_ts ) => a = b

-----------------------------------------------------------------------------
(* Properties of identify_fvg *)

Gaps == 1 .. Len(fvgs)

\* C3: no returned FVG has size_pct = (fvg_top - fvg_bottom) / fvg_bottom * 100
\* below the threshold in force, and every returned FVG has
\* 0 < fvg_bottom < fvg_midpoint < fvg_top (fvg_midpoint is in half-ticks).
C3_FvgSizeAndOrder ==
    pc = "fvg" =>
        \A g \in Gaps :
            /\ (fvgs[g].fvg_top - fvgs[g].fvg_bottom) * 100
                    >= fvg_threshold * fvgs[g].fvg_bottom
            /\ 0 < fvgs[g].fvg_bottom
            /\ 2 * fvgs[g].fvg_bottom < fvgs[g].fvg_midpoint
            /\ fvgs[g].fvg_midpoint < 2 * fvgs[g].fvg_top

\* A gap of exactly the threshold's size was kept, under a threshold that
\* rejects other gaps of the price grid.
C3_Witness ==
    /\ pc = "fvg"
    /\ fvgs # <<>>
    /\ fvg_threshold = 250
    /\ (fvgs[1].fvg_top - fvgs[1].fvg_bottom) * 100 = fvg_threshold * fvgs[1].fvg_bottom

\* C4, as claimed: a bullish_fvg is emitted for middle candle i only if the
\* middle candle closed bullish and Low[i+1] > High[i-1]; a bearish_fvg only if
\* the middle candle closed bearish and High[i+1] < Low[i-1].
C4_FvgMiddleCandleDirection ==
    pc = "fvg" =>
        \A g \in Gaps :
            LET i == RowAt(fvgs[g].timestamp)
            IN  /\ fvgs[g].type = "bullish_fvg" =>
                    /\ iloc(df, i).Close > iloc(df, i).Open
                    /\ iloc(df, i + 1).Low > iloc(df, i - 1).High
                /\ fvgs[g].type = "bearish_fvg" =>
                    /\ iloc(df, i).Close < iloc(df, i).Open
                    /\ iloc(df, i + 1).High < iloc(df, i - 1).Low

\* C4, amended: a bullish_fvg is emitted for middle candle i only if
\* Low[i+1] > High[i-1], and a bearish_fvg only if High[i+1] < Low[i-1]; the
\* direction of the middle candle is not a condition.
C4_FvgGapDirection ==
    pc = "fvg" =>
        \A g \in Gaps :
            LET i == RowAt(fvgs[g].timestamp)
            IN  /\ i >= 1 /\ i <= Len(df) - 2
                /\ fvgs[g].type \in {"bullish_fvg", "bearish_fvg"}
                /\ fvgs[g].type = "bullish_fvg" =>
                    iloc(df, i + 1).Low > iloc(df, i - 1).High
                /\ fvgs[g].type = "bearish_fvg" =>
                    iloc(df, i + 1).High < iloc(df, i - 1).Low

\* A bullish_fvg was emitted around a middle candle that closed bearish.
C4_Witness ==
    /\ pc = "fvg"
    /\ \E g \in Gaps :
        /\ fvgs[g].type = "bullish_fvg"
        /\ LET i == RowAt(fvgs[g].timestamp)
           IN  iloc(df, i).Close < iloc(df, i).Open

\* The gaps returned for the middle candle of row i.
GapsAt(i) == {g \in Gaps : fvgs[g].timestamp = iloc(df, i).timestamp}

\* The conditions of the claim on candles i-1 and i+1, under the threshold in
\* force.
BullishFvgExpected(i) ==
    LET c1 == iloc(df, i - 1)
        c3 == iloc(df, i + 1)
    IN  /\ c1.High > 0
        /\ c3.Low > c1.High
        /\ (c3.Low - c1.High) * 100 >= fvg_threshold * c1.High
BearishFvgExpected(i) ==
    LET c1 == iloc(df, i - 1)
        c3 == iloc(df, i + 1)
    IN  /\ c3.High > 0
        /\ c1.Low > c3.High
        /\ (c1.Low - c3.High) * 100 >= fvg_threshold * c3.High

\* C20: for three consecutive candles c1, c2, c3 with High[c1] > 0,
\* Low[c3] > High[c1] and a gap of at least the threshold (in percent of
\* High[c1]), exactly one FVG is returned for middle candle c2: a bullish_fvg
\* with fvg_bottom = High[c1], fvg_top = Low[c3], the timestamp of c2 and the
\* detection timestamp of c3; mirrored for bearish_fvg (fvg_bottom = High[c3],
\* fvg_top = Low[c1]).
C20_QualifyingGapYieldsOneFvg ==
    pc = "fvg" =>
        \A i \in 1 .. (Len(df) - 2) :
            /\ BullishFvgExpected(i) =>
                /\ Cardinality(GapsAt(i)) = 1
                /\ \A g \in GapsAt(i) :
                    /\ fvgs[g].type = "bullish_fvg"
                    /\ fvgs[g].fvg_bottom = iloc(df, i - 1).High
                    /\ fvgs[g].fvg_top = iloc(df, i + 1).Low
                    /\ fvgs[g].detection_candle_timestamp = iloc(df, i + 1).timestamp
            /\ BearishFvgExpected(i) =>
                /\ Cardinality(GapsAt(i)) = 1
                /\ \A g \in GapsAt(i) :
                    /\ fvgs[g].type = "bearish_fvg"
                    /\ fvgs[g].fvg_bottom = iloc(df, i + 1).High
                    /\ fvgs[g].fvg_top = iloc(df, i - 1).Low
                    /\ fvgs[g].detection_candle_timestamp = iloc(df, i + 1).timestamp

\* A gap above the smallest threshold was returned around a middle candle
\* that did not close bullish.
C20_Witness ==
    /\ pc = "fvg"
    /\ Len(df) = 3
    /\ fvg_threshold = 1
    /\ BullishFvgExpected(1)
    /\ iloc(df, 1).Close <= iloc(df, 1).Open
    /\ Len(fvgs) = 1

-----------------------------------------------------------------------------
(* Properties of identify_order_blocks *)

\* The conditions of the claim for an order block anchored at row i.
BullishObExpected(i) ==
    LET c == iloc(df, i)
        n == iloc(df, i + 1)
    IN  /\ c.High > c.Low
        /\ c.Close < c.Open
        /\ Abs(c.Close - c.Open) * min_body_ratio[2] >= min_body_ratio[1] * (c.High - c.Low)
        /\ n.Close > n.Open
        /\ n.Close > c.High
        /\ Abs(n.Close - n.Open) * 10 > 3 * (c.High - c.Low)

BearishObExpected(i) ==
    LET c == iloc(df, i)
        n == iloc(df, i + 1)
    IN  /\ c.High > c.Low
        /\ c.Close > c.Open
        /\ Abs(c.Close - c.Open) * min_body_ratio[2] >= min_body_ratio[1] * (c.High - c.Low)
        /\ n.Close < n.Open
        /\ n.Close < c.Low
        /\ Abs(n.Close - n.Open) * 10 > 3 * (c.High - c.Low)

ObAnchoredAt(type, i) ==
    \E b \in 1 .. Len(order_blocks) :
        /\ order_blocks[b].type = type
        /\ order_blocks[b].timestamp = iloc(df, i).timestamp

\* C10, as claimed: for every candle i except the last, the first candle
\* included, a bullish_ob is anchored at i iff the candle has a range, closed
\* bearish with body_ratio >= min_body_ratio, and candle i+1 closed bullish
\* above High[i] with a body over 30% of candle i's range; mirrored for
\* bearish_ob.
C10_OrderBlockIffFromFirstCandle ==
    pc = "ob" =>
        \A i \in 0 .. (Len(df) - 2) :
            /\ ObAnchoredAt("bullish_ob", i) <=> BullishObExpected(i)
            /\ ObAnchoredAt("bearish_ob", i) <=> BearishObExpected(i)

\* C10, amended: the rule decides the order blocks of every candle i except
\* the first and the last (1 <= i <= n-2); no order block is anchored at the
\* first candle or at the last.
C10_OrderBlockIffFromSecondCandle ==
    pc = "ob" =>
        /\ \A i \in 1 .. (Len(df) - 2) :
            /\ ObAnchoredAt("bullish_ob", i) <=> BullishObExpected(i)
            /\ ObAnchoredAt("bearish_ob", i) <=> BearishObExpected(i)
        /\ \A i \in Rows : (i = 0 \/ i = Len(df) - 1) =>
            /\ ~ ObAnchoredAt("bullish_ob", i)
            /\ ~ ObAnchoredAt("bearish_ob", i)

\* The first candle meets the bullish rule and the second the bearish one:
\* only the second is reported.
C10_Witness ==
    /\ pc = "ob"
    /\ Len(df) = 3
    /\ BullishObExpected(0)
    /\ BearishObExpected(1)
    /\ Len(order_blocks) = 1
    /\ order_blocks[1].type = "bearish_ob"

\* A candidate with a body was rejected only for the next candle's weak body.
ObWeakDisplacementRejected ==
    /\ pc = "ob"
    /\ Len(df) = 3
    /\ order_blocks = <<>>
    /\ LET c == iloc(df, 1)
           n == iloc(df, 2)
       IN  /\ c.Close < c.Open
           /\ Abs(c.Close - c.Open) * min_body_ratio[2] >= min_body_ratio[1] * (c.High - c.Low)
           /\ n.Close > n.Open /\ n.Close > c.High

Blocks == 1 .. Len(order_blocks)

\* C11, as claimed: a bullish_ob spans [Low, Open] of its origin candle
\* (ob_bottom = Low, ob_top = Open), a bearish_ob spans [Open, High]
\* (ob_bottom = Open, ob_top = High), and ob_midpoint is the mean of ob_bottom
\* and ob_top (in half-ticks: their sum).
C11_ObSpansToOriginOpen ==
    pc = "ob" =>
        \A b \in Blocks :
            LET c == iloc(df, RowAt(order_blocks[b].timestamp))
            IN  /\ order_blocks[b].type = "bullish_ob" =>
                    /\ order_blocks[b].ob_bottom = c.Low
                    /\ order_blocks[b].ob_top = c.Open
                /\ order_blocks[b].type = "bearish_ob" =>
                    /\ order_blocks[b].ob_bottom = c.Open
                    /\ order_blocks[b].ob_top = c.High
                /\ order_blocks[b].ob_midpoint
                        = order_blocks[b].ob_bottom + order_blocks[b].ob_top

\* C11, amended: an order block of either type spans the whole range of its
\* origin candle (ob_bottom = Low, ob_top = High), records the origin's Open and
\* Close in its open and close fields, and has as ob_midpoint the mean of
\* ob_bottom and ob_top (in half-ticks: their sum).
C11_ObSpansOriginRange ==
    pc = "ob" =>
        \A b \in Blocks :
            LET c == iloc(df, RowAt(order_blocks[b].timestamp))
            IN  /\ order_blocks[b].type \in {"bullish_ob", "bearish_ob"}
                /\ order_blocks[b].ob_bottom = c.Low
                /\ order_blocks[b].ob_top = c.High
                /\ order_blocks[b].open = c.Open
                /\ order_blocks[b].close = c.Close
                /\ order_blocks[b].ob_midpoint
                        = order_blocks[b].ob_bottom + order_blocks[b].ob_top

\* A bullish_ob was returned whose origin opened below its High: its ob_top is
\* the High, not the Open.
C11_Witness ==
    /\ pc = "ob"
    /\ \E b \in Blocks :
        /\ order_blocks[b].type = "bullish_ob"
        /\ order_blocks[b].close < order_blocks[b].open
        /\ order_blocks[b].open < order_blocks[b].ob_top

-----------------------------------------------------------------------------
(* Properties of get_premium_discount_array *)

\* The window of the call: the rows before current_candle_index, at most
\* lookback of them.
PdWindow ==
    {k \in Rows : /\ k < pd_args.current_candle_index
                  /\ k >= pd_args.current_candle_index - pd_args.lookback}

PdWindowHigh == Max({iloc(df, k).High : k \in PdWindow})
PdWindowLow == Min({iloc(df, k).Low : k \in PdWindow})

\* C7: the call returns None whenever the window's range_high <= range_low;
\* a returned array has range_low <= equilibrium <= range_high and
\* equilibrium = range_low + (range_high - range_low) / 2 (in half-ticks:
\* twice that), over the window's highest High and lowest Low.
C7_PdNoneOrEquilibriumInside ==
    pc = "pd" =>
        /\ (PdWindow # {} /\ PdWindowHigh <= PdWindowLow) => pd_array = NoArray
        /\ pd_array # NoArray =>
            /\ pd_array.range_high = PdWindowHigh
            /\ pd_array.range_low = PdWindowLow
            /\ 2 * pd_array.range_low <= pd_array.equilibrium
            /\ pd_array.equilibrium <= 2 * pd_array.range_high
            /\ pd_array.equilibrium - 2 * pd_array.range_low
                    = pd_array.range_high - pd_array.range_low

\* An array was returned for a full window of two candles.
C7_Witness ==
    /\ pc = "pd"
    /\ pd_array # NoArray
    /\ Cardinality(PdWindow) = 2
    /\ pd_array.current_price_status = "premium"

\* None was returned for an in-range call whose window has no range.
PdDegenerateWindow ==
    /\ pc = "pd"
    /\ pd_args.current_candle_index < Len(df)
    /\ PdWindow # {}
    /\ PdWindowHigh = PdWindowLow
    /\ pd_array = NoArray

\* C22: a returned array holds, for each configured ratio r (as <<num, den>>),
\* the price range_low + r * (range_high - range_low) (in 1/den ticks below);
\* the configured lists all pass validate_config, which accepts 0 <= r <= 1.
C22_PdLevelPerConfiguredRatio ==
    (pc = "pd" /\ pd_array # NoArray) =>
        \A k \in 1 .. Len(pd_args.levels) :
            LET r == pd_args.levels[k]
            IN  /\ r \in DOMAIN pd_array.level
                /\ pd_array.level[r] = pd_array.range_low * r[2]
                                        + (pd_array.range_high - pd_array.range_low) * r[1]

\* An array was returned with the price of every configured ratio, the ratios
\* lying strictly between 0 and 1.
PdEveryRatioPriced ==
    /\ pc = "pd"
    /\ pd_array # NoArray
    /\ pd_args.levels # <<>>
    /\ \A k \in 1 .. Len(pd_args.levels) : pd_args.levels[k] \in DOMAIN pd_array.level

-----------------------------------------------------------------------------
(* Properties of get_overall_htf_bias *)

\* The bias of one supplied timeframe as section 4.7 defines it: the kind of
\* the last MSS event of its series; NEUTRAL when the series is None, empty or
\* too short, or has no MSS event.
IndividualBias(tf) ==
    LET entry == htf_data_dict[tf]
        L == env.ICT_SWING_LOOKBACK_PERIODS
        m == env.ICT_MSS_SWING_LOOKBACK
    IN  IF entry.is_none \/ Len(entry.rows) < Max({m, 2 * L + 1}) THEN "NEUTRAL"
        ELSE LET events == analyze_market_structure_shift(
                               entry.rows, identify_swing_points(entry.rows, L), m)
             IN  IF events = <<>> THEN "NEUTRAL"
                 ELSE IF events[Len(events)].type = "bullish_mss" THEN "BULLISH"
                 ELSE "BEARISH"

Supplied == DOMAIN htf_data_dict

\* The supplied timeframes with a bias that is not NEUTRAL.
ClearTimeframes == {tf \in Supplied : IndividualBias(tf) # "NEUTRAL"}

\* C8: in priority mode the call returns the individual bias of the highest
\* timeframe whose individual bias is not NEUTRAL, and NEUTRAL iff every
\* timeframe is NEUTRAL.
C8_PriorityModeHighestClearBias ==
    (pc = "bias" /\ ~ env.HTF_BIAS_CONSENSUS_REQUIRED) =>
        /\ htf_bias.outcome = "return"
        /\ IF ClearTimeframes = {} THEN htf_bias.bias = "NEUTRAL"
           ELSE \E tf \in ClearTimeframes :
                    /\ \A other \in ClearTimeframes : tf_timedelta(other) <= tf_timedelta(tf)
                    /\ htf_bias.bias = IndividualBias(tf)

\* C9: in consensus mode the call returns a bias b other than NEUTRAL only if
\* every supplied timeframe has bias b (a None, empty or short series counting
\* as NEUTRAL), and returns NEUTRAL in every other case.
C9_ConsensusModeAllAgree ==
    (pc = "bias" /\ env.HTF_BIAS_CONSENSUS_REQUIRED) =>
        /\ htf_bias.outcome = "return"
        /\ IF /\ Supplied # {}
              /\ ClearTimeframes = Supplied
              /\ \A a \in Supplied : \A b \in Supplied : IndividualBias(a) = IndividualBias(b)
           THEN \A tf \in Supplied : htf_bias.bias = IndividualBias(tf)
           ELSE htf_bias.bias = "NEUTRAL"

\* The supplied timeframes whose series has at least one candle.
WithCandles == {tf \in Supplied : ~ htf_data_dict[tf].is_none /\ htf_data_dict[tf].rows # <<>>}

\* C18: when every supplied series has fewer than 2*swing_lookback+1 candles
\* (empty series included), the call returns, the bias is NEUTRAL, and the
\* reason reports the lack of data: "Insufficient data" for each timeframe that
\* has candles, and one of the two no-data reasons when none has.
C18_ShortSeriesNeutralInsufficient ==
    ( /\ pc = "bias"
      /\ \A tf \in Supplied :
            /\ ~ htf_data_dict[tf].is_none
            /\ Len(htf_data_dict[tf].rows) < 2 * env.ICT_SWING_LOOKBACK_PERIODS + 1 ) =>
        /\ htf_bias.outcome = "return"
        /\ htf_bias.bias = "NEUTRAL"
        /\ IF WithCandles # {}
           THEN \A tf \in WithCandles :
                    \E k \in 1 .. Len(htf_bias.reasons) :
                        htf_bias.reasons[k] = <<tf, "Insufficient data">>
           ELSE htf_bias.reasons \in
                    { << "No HTF data provided." >>,
                      << "HTF bias undetermined (no valid HTF data)." >> }

\* The call returned NEUTRAL for a dictionary of empty series only.
BiasReturnedOnEmptySeries ==
    /\ pc = "bias"
    /\ Supplied = HTF_TIMEFRAMES
    /\ WithCandles = {}
    /\ htf_bias = Returned("NEUTRAL", << "HTF bias undetermined (no valid HTF data)." >>)

\* The call returned although a series was supplied: never reached.
BiasReturnedOnData ==
    /\ pc = "bias"
    /\ htf_bias.outcome = "return"
    /\ \E tf \in Supplied : ~ htf_data_dict[tf].is_none /\ htf_data_dict[tf].rows # <<>>

\* Scenario D of section 8: 1d NEUTRAL on a full series, 4h BEARISH.
BiasScenarioD ==
    /\ pc = "bias"
    /\ ~ env.HTF_BIAS_CONSENSUS_REQUIRED
    /\ Supplied = HTF_TIMEFRAMES
    /\ Len(htf_data_dict[[n |-> 1, unit |-> "d"]].rows) = MaxHtfLen
    /\ IndividualBias([n |-> 1, unit |-> "d"]) = "NEUTRAL"
    /\ IndividualBias([n |-> 4, unit |-> "h"]) = "BEARISH"

\* The duration a timeframe string denotes, in minutes, a month taken as 30
\* days.
Duration(tf) ==
    tf.n * ( IF tf.unit = "min" THEN 1
             ELSE IF tf.unit = "h" THEN 60
             ELSE IF tf.unit = "d" THEN 24 * 60
             ELSE IF tf.unit = "w" THEN 7 * 24 * 60
             ELSE 30 * 24 * 60 )

\* The order in which the loop of line 288 visits the keys.
EvaluationOrder == sorted_htfs(bias_args.keys)

\* C24: the timeframes are evaluated in descending order of the duration they
\* denote, whatever the multiplier, and in the same order for every insertion
\* order of the same keys.
C24_EvaluatedLongestFirst ==
    pc = "bias" =>
        /\ \A a \in 1 .. Len(EvaluationOrder) : \A b \in 1 .. Len(EvaluationOrder) :
            a < b => Duration(EvaluationOrder[a]) >= Duration(EvaluationOrder[b])
        /\ \A other \in ItemOrders(htf_data_dict) : sorted_htfs(other) = EvaluationOrder

\* Two timeframes of different units were evaluated longest first although the
\* dictionary held them shortest first.
BiasKeysReordered ==
    /\ pc = "bias"
    /\ Len(bias_args.keys) = 2
    /\ bias_args.keys[1].unit # bias_args.keys[2].unit
    /\ Duration(bias_args.keys[1]) < Duration(bias_args.keys[2])
    /\ EvaluationOrder = << bias_args.keys[2], bias_args.keys[1] >>

-----------------------------------------------------------------------------
(* Properties of identify_key_htf_levels *)

Levels == 1 .. Len(key_levels.levels)

\* The representative price of a key level, in half-ticks: the midpoint of an
\* OB or FVG, the swing price of a SwingHigh or SwingLow.
RepresentativePrice(x) ==
    IF x.level_type = "OB" THEN x.ob_midpoint
    ELSE IF x.level_type = "FVG" THEN x.fvg_midpoint
    ELSE 2 * x.price_level

\* A level is there to be found on timeframe tf: the series lies at or before
\* current_ltf_timestamp and its last candle but one is a swing whose price is
\* the current LTF price.
SwingLevelAt(tf) ==
    LET rows == htf_data_dict[tf].rows
        L == env.ICT_SWING_LOOKBACK_PERIODS
        sw == identify_swing_points(rows, L)
        k == Len(rows) - 2
    IN  /\ ~ htf_data_dict[tf].is_none
        /\ Len(rows) >= 2 * L + 1
        /\ iloc(rows, Len(rows) - 1).timestamp <= level_args.current_ltf_timestamp
        /\ \/ iloc(sw.Swing_High, k) /\ iloc(rows, k).High = level_args.ltf_current_price
           \/ iloc(sw.Swing_Low, k) /\ iloc(rows, k).Low = level_args.ltf_current_price

LevelFound == \E tf \in Supplied : SwingLevelAt(tf)

C13_KeyLevelsSortedAndReturned ==
    pc = "levels" =>
        /\ LevelFound => key_levels.outcome = "return"
        /\ \A a \in Levels : \A b \in Levels :
            a < b =>
                LET x == key_levels.levels[a]
                    y == key_levels.levels[b]
                IN  /\ tf_timedelta(x.timeframe) >= tf_timedelta(y.timeframe)
                    /\ tf_timedelta(x.timeframe) = tf_timedelta(y.timeframe) =>
                        Abs(level_args.current_ltf_timestamp - x.timestamp)
                            <= Abs(level_args.current_ltf_timestamp - y.timestamp)

\* The call returned a level: never reached.
KeyLevelReturned ==
    /\ pc = "levels"
    /\ key_levels.levels # <<>>

\* The call returned on supplied data: the empty list, from series too short
\* for swing detection, under an interpreter that accepts the reverse argument.
KeyLevelsReturnedOnShortSeries ==
    /\ pc = "levels"
    /\ Supplied # {}
    /\ key_levels = LevelsReturned(<<>>)
    /\ level_args.reverse = "truthy"

\* The reverse argument was rejected although no level had been collected.
KeyLevelsSortRejected ==
    /\ pc = "levels"
    /\ key_levels.outcome = "TypeError"

\* htf_data_dict without the candles whose timestamp is later than
\* current_ltf_timestamp.
WithoutLaterCandles ==
    [tf \in Supplied |->
        IF htf_data_dict[tf].is_none THEN htf_data_dict[tf]
        ELSE [htf_data_dict[tf] EXCEPT
                !.rows = SelectSeq(@, LAMBDA row :
                            row.timestamp <= level_args.current_ltf_timestamp)]]

\* C29: the outcome of the call is the one the same call has on the dictionary
\* without the HTF candles later than current_ltf_timestamp.
C29_KeyLevelsNoLookAhead ==
    pc = "levels" =>
        key_levels = identify_key_htf_levels(WithoutLaterCandles, level_args.items,
                                             level_args.current_ltf_timestamp,
                                             level_args.ltf_current_price,
                                             env, level_args.reverse)

\* The call ended the same way with and without later candles, some being
\* there to remove.
KeyLevelsSameWithoutLaterCandles ==
    /\ pc = "levels"
    /\ WithoutLaterCandles # htf_data_dict
    /\ key_levels = identify_key_htf_levels(WithoutLaterCandles, level_args.items,
                                            level_args.current_ltf_timestamp,
                                            level_args.ltf_current_price,
                                            env, level_args.reverse)

-----------------------------------------------------------------------------
(* Properties of get_ltf_signals *)

LtfRows == ltf_df_processed.rows
EvalCandleIdx == Len(LtfRows) - 1

\* The series passes the guard of line 392.
SuitableLtf == ltf_df_processed.has_rsi /\ Len(LtfRows) >= MinLtfLength

Emitted == 1 .. Len(signals.signals)

LtfSwings == identify_swing_points(LtfRows, env.ICT_SWING_LOOKBACK_PERIODS)
LtfPd == get_premium_discount_array(LtfRows, EvalCandleIdx,
                                    env.ICT_PD_ARRAY_LOOKBACK_PERIODS,
                                    env.ICT_PD_RETRACEMENT_LEVELS)

\* No row of the series produces an MSS event.
NoLtfShift ==
    \A i \in env.ICT_MSS_SWING_LOOKBACK .. Len(LtfRows) - 1 :
        mss_step(LtfRows, LtfSwings, env.ICT_MSS_SWING_LOOKBACK, i, <<>>) = <<>>

\* An OB or FVG of the given direction formed within the P/D lookback of the
\* evaluated candle.
RecentElement(direction) ==
    \E i \in 1 .. Len(LtfRows) - 2 :
        /\ EvalCandleIdx - i <= env.ICT_PD_ARRAY_LOOKBACK_PERIODS
        /\ LET found_fvgs == fvg_step(LtfRows, i, env.FVG_THRESHOLD)
               found_obs == ob_step(LtfRows, i, env.ICT_OB_MIN_BODY_RATIO)
           IN  \/ \E g \in 1 .. Len(found_fvgs) :
                     found_fvgs[g].type =
                         IF direction = "bullish" THEN "bullish_fvg" ELSE "bearish_fvg"
               \/ \E b \in 1 .. Len(found_obs) :
                     found_obs[b].type =
                         IF direction = "bullish" THEN "bullish_ob" ELSE "bearish_ob"

\* The fallback applies in the given direction: no MSS event at all (hence no
\* sweep + MSS candidate), the P/D array exists with the given status, a recent
\* element of the direction exists, and no suppression rule applies (a neutral
\* RSI reading on the evaluated candle, no HTF level in the way).
FallbackApplies(status, direction) ==
    /\ SuitableLtf
    /\ NoLtfShift
    /\ ~ LtfPd.is_none
    /\ LtfPd.current_price_status = status
    /\ RecentElement(direction)
    /\ iloc(LtfRows, EvalCandleIdx).RSI = 50
    /\ signal_args.key_htf_levels = <<>>

\* C15: when the fallback applies with status discount and a recent bullish OB
\* or FVG, the returned list contains a buy signal; with status premium and a
\* recent bearish OB or FVG, a sell signal.
C15_FallbackEmitsSignal ==
    pc = "signals" =>
        /\ FallbackApplies("discount", "bullish") =>
            /\ signals.outcome = "return"
            /\ \E k \in Emitted : signals.signals[k].trade_type = "buy"
        /\ FallbackApplies("premium", "bearish") =>
            /\ signals.outcome = "return"
            /\ \E k \in Emitted : signals.signals[k].trade_type = "sell"

\* The call has ended on a series for which the bullish fallback applies.
BullishFallbackCase ==
    /\ pc = "signals"
    /\ FallbackApplies("discount", "bullish")

\* The call has ended on a series for which the bearish fallback applies.
BearishFallbackCase ==
    /\ pc = "signals"
    /\ FallbackApplies("premium", "bearish")

\* The call returned on a series that passes the guard of line 392: never
\* reached.
SignalsReturnedOnSuitableSeries ==
    /\ pc = "signals"
    /\ SuitableLtf
    /\ signals.outcome = "return"

\* C21: the FVGs handed to signal synthesis (all_fvgs) hold no gap whose
\* [fvg_bottom, fvg_top] contains the close of the evaluated candle, and at
\* most 10 gaps.
C21_SurfacedFvgsUnfilledAndCapped ==
    (pc = "signals" /\ SuitableLtf) =>
        LET surfaced == all_fvgs_of(ltf_df_processed, env)
            current_close == iloc(LtfRows, EvalCandleIdx).Close
        IN  /\ \A g \in surfaced :
                ~ (g.fvg_bottom <= current_close /\ current_close <= g.fvg_top)
            /\ Cardinality(surfaced) <= 10

\* A gap was found and the evaluated candle closed outside it.
UnfilledFvgSurfaced ==
    /\ pc = "signals"
    /\ SuitableLtf
    /\ \E g \in all_fvgs_of(ltf_df_processed, env) :
        iloc(LtfRows, EvalCandleIdx).Close > g.fvg_top

\* C30: whenever get_ltf_signals returns without raising, the returned list is
\* empty.
C30_ReturnedSignalsEmpty ==
    (pc = "signals" /\ signals.outcome = "return") => signals.signals = <<>>

\* The call returned on a series with an RSI column, one candle short of the
\* minimum length.
C30_Witness ==
    /\ pc = "signals"
    /\ signals.outcome = "return"
    /\ ltf_df_processed.has_rsi
    /\ Len(LtfRows) = MinLtfLength - 1

-----------------------------------------------------------------------------
(* Properties of check_htf_level_interaction *)

\* The bounds of an HTF level by its kind: the zone of an OB or FVG, the price
\* of a swing.
LowerBound(h) ==
    IF h.level_type = "OB" THEN h.ob_bottom
    ELSE IF h.level_type = "FVG" THEN h.fvg_bottom
    ELSE h.price_level
UpperBound(h) ==
    IF h.level_type = "OB" THEN h.ob_top
    ELSE IF h.level_type = "FVG" THEN h.fvg_top
    ELSE h.price_level

Listed(h, list) == \E j \in 1 .. Len(list) : list[j] = h

\* C25: for a buy, every SwingHigh level and every bullish OB or FVG whose
\* lower bound is above poi_top + 3 * buffer (buffer = 0.1% of entry_level) is
\* listed in targets; for a sell, every SwingLow level and every bearish OB or
\* FVG whose upper bound is below poi_bottom - 3 * buffer.
C25_FarLevelsAreTargets ==
    pc = "interaction" =>
        \A k \in 1 .. Len(signal_args.key_htf_levels) :
            LET h == signal_args.key_htf_levels[k]
                a == interaction_args
            IN  /\ ( /\ a.trade_type = "buy"
                     /\ h.level_type = "SwingHigh" \/ h.type \in {"bullish_ob", "bullish_fvg"}
                     /\ LowerBound(h) * 1000 > a.poi_top * 1000 + 3 * a.entry_level )
                        => Listed(h, interaction.targets)
                /\ ( /\ a.trade_type = "sell"
                     /\ h.level_type = "SwingLow" \/ h.type \in {"bearish_ob", "bearish_fvg"}
                     /\ UpperBound(h) * 1000 < a.poi_bottom * 1000 - 3 * a.entry_level )
                        => Listed(h, interaction.targets)

\* A bullish OB beyond the far edge was listed as a target of a buy, next to
\* a bearish OB listed as an obstacle.
InteractionTargetAndObstacle ==
    /\ pc = "interaction"
    /\ interaction_args.trade_type = "buy"
    /\ \E j \in 1 .. Len(interaction.targets) : interaction.targets[j].type = "bullish_ob"
    /\ \E j \in 1 .. Len(interaction.obstacles) : interaction.obstacles[j].type = "bearish_ob"
    /\ interaction.confidence_mod = <<6, 10>>

====
